---- MODULE Spec2Model ----
(***************************************************************************)
(* Verification model of sep-scraper: the HTML-to-Markdown conversion      *)
(* pipeline (parser.py, converters/, assembler.py, metadata.py, cli.py).   *)
(*                                                                         *)
(* Strings are sequences of tokens.  A token is either a white-space       *)
(* character (" ", "\n", "\t"), a punctuation character, or an atomic run  *)
(* of text without white space at its ends.  Document trees are records    *)
(* [name, text, href, id, kids]; a text node has name "#text".             *)
(***************************************************************************)
EXTENDS Integers, Sequences, FiniteSets, TLC

VARIABLES
    \* SEPParser.get_main_content (parser.py 89-146)
    has_main,            \* the document has a div#main-text / div#aueditable
    children,            \* main_text.children
    idx,                 \* position of the for loop (next child to visit)
    skip_until_next_h2,  \* the skip flag
    lines,               \* the list of output lines
    line_src,            \* history: index of the child that produced each line
    mc_result,           \* the string returned
    mc_pc,               \* "start" | "loop" | "done"
    \* MathConverter._expand_macros (math.py 55-91)
    mx_macros,           \* self._macros, in dict order
    mx_latex,            \* the argument
    mx_result,           \* result
    mx_pass,             \* passes of the for loop begun so far
    mx_i,                \* position in self._macros.items() within the pass
    mx_changed,          \* changed
    mx_steps,            \* history: steps taken since the call
    mx_pc,               \* "start" | "loop" | "pass" | "done"
    \* MathConverter._expand_macro_with_args (math.py 93-149)
    sc_text,             \* text
    sc_macro,            \* name, expansion, num_args
    sc_pos,              \* pos
    sc_out,              \* "".join(result) so far
    sc_pc,               \* "scan" | "done"
    \* FootnoteConverter.format_definitions (footnotes.py 127-149)
    fn_definitions,      \* self._definitions: its items, in insertion order
    fn_order,            \* sorted(self._definitions.keys(), key=int)
    fn_k,                \* position of the for loop in fn_order
    fn_lines,            \* lines
    fn_result,           \* the string returned
    fn_pc,               \* "start" | "loop" | "done"
    \* assembler.assemble_markdown (assembler.py 6-61)
    as_args,             \* metadata, content, footnotes, bibliography,
                         \* appendices, preamble
    as_parts,            \* parts
    as_result,           \* the string returned
    as_pc,               \* "frontmatter" | "preamble" | ... | "join" | "done"
    \* cli.scrape_article (cli.py 62-85)
    e2_page,             \* soup: what stands before and after the main-content
                         \* container (whose children are the variable children)
    e2_locals,           \* appendices, metadata, content, footnotes, bibliography
    e2_result,           \* the string returned
    e2_pc,               \* "parse" | "appendices" | ... | "done" | "raised"
    \* one call of a function of the converters
    call,                \* the operation and its argument
    call_ret,            \* the value returned
    call_pc              \* "call" | "done"

mcVars == <<has_main, children, idx, skip_until_next_h2, lines, line_src,
            mc_result, mc_pc>>

mxVars == <<mx_macros, mx_latex, mx_result, mx_pass, mx_i, mx_changed,
            mx_steps, mx_pc>>

scVars == <<sc_text, sc_macro, sc_pos, sc_out, sc_pc>>

fnVars == <<fn_definitions, fn_order, fn_k, fn_lines, fn_result, fn_pc>>

asVars == <<as_args, as_parts, as_result, as_pc>>

e2Vars == <<e2_page, e2_locals, e2_result, e2_pc>>

callVars == <<call, call_ret, call_pc>>

VARIABLES
    \* cli.main and cli.scrape_article as a sequence of awaits (cli.py 40-152)
    sa_entry,            \* the function called: "main" or "scrape_article"
    sa_url,              \* its url
    sa_pc,               \* position
    sa_fetch,            \* the two fetches of asyncio.gather: status of each
    sa_links,            \* appendix_links (titles)
    sa_app,              \* status of the fetch of each appendix link
    sa_order,            \* the links in the order their fetches completed
    sa_pages,            \* appendix_pages
    sa_log,              \* the requests, parses and reports so far, in order
    sa_out               \* what the caller gets

VARIABLES
    \* one SEPParser and the trees it works on (parser.py 59-322)
    tr_orig,             \* the article tree and the appendix tree as parsed
    tr_soup,             \* self._soup, the article tree
    tr_appendix,         \* the appendix tree given to parse_appendix
    tr_ops,              \* the operations called so far
    tr_bib               \* what the last get_bibliography returned

trVars == <<tr_orig, tr_soup, tr_appendix, tr_ops, tr_bib>>

VARIABLES
    \* scripts/scrape_all.py: main and its scrape_entry tasks, counted by
    \* the place they are at (the tasks differ by nothing else)
    ba_urls,             \* len(urls)
    ba_new,              \* tasks not yet run, by whether their output file exists
    ba_waiting,          \* tasks waiting in "async with semaphore"
    ba_active,           \* tasks inside "await scrape_article(url)"
    ba_value,            \* the semaphore's free permits
    ba_files,            \* files of this run: written in full, left by a failed write
    ba_ready,            \* results returned and not yet taken by main, by message
    ba_count             \* main's success_count, skip_count, fail_count

baVars == <<ba_urls, ba_new, ba_waiting, ba_active, ba_value, ba_files,
            ba_ready, ba_count>>

saVars == <<sa_entry, sa_url, sa_pc, sa_fetch, sa_links, sa_app, sa_order,
            sa_pages, sa_log, sa_out>>

vars == <<mcVars, mxVars, scVars, fnVars, asVars, e2Vars, callVars, saVars, trVars, baVars>>

-----------------------------------------------------------------------------
(* Python str primitives on token sequences *)

NL == "\n"

\* the code-span delimiter of Markdown
BackTick == "backtick"

IsSpace(c) == c \in {" ", "\n", "\t"}

RECURSIVE Concat(_)
\* "".join(parts)
Concat(parts) ==
    IF parts = <<>> THEN <<>> ELSE Head(parts) \o Concat(Tail(parts))

RECURSIVE Join(_, _)
\* sep.join(parts)
Join(parts, sep) ==
    IF parts = <<>> THEN <<>>
    ELSE IF Len(parts) = 1 THEN parts[1]
    ELSE parts[1] \o sep \o Join(Tail(parts), sep)

RECURSIVE LStrip(_)
LStrip(s) ==
    IF s = <<>> THEN <<>>
    ELSE IF IsSpace(Head(s)) THEN LStrip(Tail(s)) ELSE s

RECURSIVE RStrip(_)
RStrip(s) ==
    IF s = <<>> THEN <<>>
    ELSE IF IsSpace(s[Len(s)]) THEN RStrip(SubSeq(s, 1, Len(s) - 1)) ELSE s

Strip(s) == LStrip(RStrip(s))

RECURSIVE CollapseWs(_)
\* re.sub(r"\s+", " ", s)
CollapseWs(s) ==
    IF s = <<>> THEN <<>>
    ELSE IF IsSpace(Head(s))
         THEN <<" ">> \o CollapseWs(LStrip(s))
         ELSE <<Head(s)>> \o CollapseWs(Tail(s))

\* s[i:] starts with sub  (i is a 1-based position)
StartsAt(s, sub, i) ==
    /\ i >= 1
    /\ i + Len(sub) - 1 <= Len(s)
    /\ \A k \in 1..Len(sub) : s[i + k - 1] = sub[k]

\* s.find(sub), 1-based; 0 when sub does not occur
Find(s, sub) ==
    LET hits == {i \in 1..(Len(s) + 1) : StartsAt(s, sub, i)}
    IN  IF hits = {} THEN 0 ELSE CHOOSE i \in hits : \A j \in hits : i <= j

Contains(s, sub) == Find(s, sub) # 0

-----------------------------------------------------------------------------
(* Document trees *)

Txt(s) == [name |-> "#text", text |-> s, href |-> <<>>, id |-> <<>>, kids |-> <<>>]

El(n, k) == [name |-> n, text |-> <<>>, href |-> <<>>, id |-> <<>>, kids |-> k]

Anchor(h, k) == [name |-> "a", text |-> <<>>, href |-> h, id |-> <<>>, kids |-> k]

IsTag(e) == e.name # "#text"

HeadingNames == {"h1", "h2", "h3", "h4", "h5", "h6"}

Level(n) ==
    CASE n = "h1" -> 1 [] n = "h2" -> 2 [] n = "h3" -> 3
      [] n = "h4" -> 4 [] n = "h5" -> 5 [] n = "h6" -> 6

Hashes(l) == <<"#", "##", "###", "####", "#####", "######">>[l]

Digits == {"0", "1", "2", "3", "4", "5", "6", "7", "8", "9"}

\* str.lower() of one token
Lower(t) ==
    CASE t = "Related Entries" -> "related entries"
      [] t = "RELATED ENTRIES" -> "related entries"
      [] t = "Academic Tools" -> "academic tools"
      [] t = "Other Internet Resources" -> "other internet resources"
      [] t = "Acknowledgments" -> "acknowledgments"
      [] t = "Appendices" -> "appendices"
      [] t = "Bibliography" -> "bibliography"
      [] t = "References" -> "references"
      [] t = "Intro" -> "intro"
      [] t = "More" -> "more"
      [] t = "Sub" -> "sub"
      [] t = "Overview" -> "overview"
      [] t = "Notes" -> "notes"
      [] OTHER -> t

RECURSIVE get_text_strip(_)
\* element.get_text(strip=True): the stripped, non-empty text nodes, concatenated
get_text_strip(e) ==
    IF ~IsTag(e) THEN Strip(e.text)
    ELSE Concat([i \in DOMAIN e.kids |-> get_text_strip(e.kids[i])])

RECURSIVE get_text(_)
\* element.get_text()
get_text(e) ==
    IF ~IsTag(e) THEN e.text
    ELSE Concat([i \in DOMAIN e.kids |-> get_text(e.kids[i])])

-----------------------------------------------------------------------------
(* converters/text.py, converters/footnotes.py *)

RECURSIVE find_all(_, _)
\* element.find_all(names): the descendants with one of the names, document order
find_all(e, names) ==
    Concat([i \in DOMAIN e.kids |->
        (IF e.kids[i].name \in names THEN <<e.kids[i]>> ELSE <<>>)
            \o find_all(e.kids[i], names)])

RECURSIVE FirstDigits(_)
\* re.search(r"(\d+)", s): the first maximal run of digits, <<>> when none
FirstDigits(s) ==
    IF s = <<>> THEN <<>>
    ELSE IF Head(s) \in Digits
         THEN LET rest == Tail(s)
              IN  <<Head(s)>> \o
                  (IF rest # <<>> /\ Head(rest) \in Digits
                   THEN FirstDigits(rest) ELSE <<>>)
         ELSE FirstDigits(Tail(s))

RECURSIVE convert_inlineMutAlwaysLink(_)
convert_inlineMutAlwaysLink(e) ==
    LET piece(c) ==
            IF ~IsTag(c) THEN CollapseWs(c.text)
            ELSE IF c.name \in {"em", "i"}
                 THEN <<"*">> \o convert_inlineMutAlwaysLink(c) \o <<"*">>
            ELSE IF c.name \in {"strong", "b"}
                 THEN <<"**">> \o convert_inlineMutAlwaysLink(c) \o <<"**">>
            ELSE IF c.name = "a"
                 THEN IF TRUE
                      THEN <<"[">> \o convert_inlineMutAlwaysLink(c) \o <<"]", "(">>
                               \o c.href \o <<")">>
                      ELSE convert_inlineMutAlwaysLink(c)
            ELSE IF c.name \in {"sup", "sub"} THEN convert_inlineMutAlwaysLink(c)
            ELSE IF c.name = "br" THEN <<NL>>
            ELSE IF c.name = "code" THEN <<BackTick>> \o get_text(c) \o <<BackTick>>
            ELSE convert_inlineMutAlwaysLink(c)
    IN  Strip(Concat([i \in DOMAIN e.kids |-> piece(e.kids[i])]))

RECURSIVE convert_inline(_)
\* TextConverter.convert_inline: the children of the element, never its own tag
convert_inline(e) ==
    LET piece(c) ==
            IF ~IsTag(c) THEN CollapseWs(c.text)
            ELSE IF c.name \in {"em", "i"}
                 THEN <<"*">> \o convert_inline(c) \o <<"*">>
            ELSE IF c.name \in {"strong", "b"}
                 THEN <<"**">> \o convert_inline(c) \o <<"**">>
            ELSE IF c.name = "a"
                 THEN IF c.href # <<>>
                      THEN <<"[">> \o convert_inline(c) \o <<"]", "(">>
                               \o c.href \o <<")">>
                      ELSE convert_inline(c)
            ELSE IF c.name \in {"sup", "sub"} THEN convert_inline(c)
            ELSE IF c.name = "br" THEN <<NL>>
            ELSE IF c.name = "code" THEN <<BackTick>> \o get_text(c) \o <<BackTick>>
            ELSE convert_inline(c)
    IN  Strip(Concat([i \in DOMAIN e.kids |-> piece(e.kids[i])]))

\* TextConverter._convert_heading: "#" * level, a space, the inline text
convert_heading(e) == <<Hashes(Level(e.name)), " ">> \o convert_inline(e)

convert_referenceMutTextFirst(e) ==
    LET anchors == find_all(e, {"a"})
    IN  IF anchors = <<>> THEN get_text_strip(e)
        ELSE LET a == anchors[1]
             IN  IF FirstDigits(get_text(a)) # <<>>
                 THEN <<"[^">> \o FirstDigits(get_text(a)) \o <<"]">>
                 ELSE IF FirstDigits(a.href) # <<>>
                 THEN <<"[^">> \o FirstDigits(a.href) \o <<"]">>
                 ELSE get_text_strip(e)

\* FootnoteConverter.convert_reference
convert_reference(e) ==
    LET anchors == find_all(e, {"a"})
    IN  IF anchors = <<>> THEN get_text_strip(e)
        ELSE LET a == anchors[1]
             IN  IF FirstDigits(a.href) # <<>>
                 THEN <<"[^">> \o FirstDigits(a.href) \o <<"]">>
                 ELSE IF FirstDigits(get_text(a)) # <<>>
                 THEN <<"[^">> \o FirstDigits(get_text(a)) \o <<"]">>
                 ELSE get_text_strip(e)

-----------------------------------------------------------------------------
(* converters/math.py: the free-text pass, for a converter without macros *)

\* position of the first tok in s at or after i, 0 when none
IndexFrom(s, tok, i) ==
    LET hits == {k \in i..Len(s) : s[k] = tok}
    IN  IF hits = {} THEN 0 ELSE CHOOSE k \in hits : \A j \in hits : k <= j

RECURSIVE convert_text(_)
\* MathConverter.convert_text with self._macros == {}: each \( ... \) becomes
\* $ ... $ (non-greedy, left to right); _expand_macros returns its argument
\* when the table is empty (math.py 64-65).  The texts of this model hold no
\* \[ \], \eqref, \mbox or $$, and no white-space run inside \( \), which are
\* the only texts the remaining rewrites change.
convert_text(s) ==
    LET i == IndexFrom(s, "\\(", 1)
        j == IF i = 0 THEN 0 ELSE IndexFrom(s, "\\)", i + 1)
    IN  IF i = 0 \/ j = 0 THEN s
        ELSE SubSeq(s, 1, i - 1) \o <<"$">> \o SubSeq(s, i + 1, j - 1) \o <<"$">>
                 \o convert_text(SubSeq(s, j + 1, Len(s)))

-----------------------------------------------------------------------------
(* parser.py *)

EXCLUDED_SECTIONS ==
    { <<"related entries">>, <<"academic tools">>, <<"other internet resources">>,
      <<"acknowledgments">>, <<"appendices">> }

\* re.sub(r"^\d+\.\s*", "", s)
StripNumbering(s) ==
    LET d == FirstDigits(s)
        n == Len(d)
    IN  IF s # <<>> /\ Head(s) \in Digits /\ n < Len(s) /\ s[n + 1] = "."
        THEN LStrip(SubSeq(s, n + 2, Len(s)))
        ELSE s

\* parser.py 111-113 (and 234-235): the text a heading is compared by
NormalizedHeading(e) ==
    LET t == get_text_strip(e)
    IN  StripNumbering([i \in DOMAIN t |-> Lower(t[i])])

\* parser.py 115-118
is_excluded(e) ==
    \/ NormalizedHeading(e) \in EXCLUDED_SECTIONS
    \/ NormalizedHeading(e) \in { <<"bibliography">>, <<"references">> }

\* SEPParser._convert_paragraph: a text child verbatim, a sup holding a link
\* by convert_reference, every other child by convert_inline OF THE CHILD
\* (which renders the child's children, not the child's own tag).  The
\* documents of this model hold no script or span children.
convert_paragraph(e) ==
    LET piece(c) ==
            IF ~IsTag(c) THEN c.text
            ELSE IF c.name = "sup" /\ find_all(c, {"a"}) # <<>>
                 THEN convert_reference(c)
            ELSE convert_inline(c)
    IN  Strip(CollapseWs(Concat([i \in DOMAIN e.kids |-> piece(e.kids[i])])))

RECURSIVE convert_element(_)
\* SEPParser._convert_element, for the tags of this model: headings,
\* paragraphs, generic containers; any other node gives ""
convert_element(e) ==
    IF e.name \in HeadingNames THEN convert_heading(e)
    ELSE IF e.name = "p" THEN convert_paragraph(e)
    ELSE IF e.name = "div"
         THEN LET conv == [i \in DOMAIN e.kids |->
                              IF IsTag(e.kids[i]) THEN convert_element(e.kids[i])
                              ELSE <<>>]
              IN  Join(SelectSeq(conv, LAMBDA c : c # <<>>), <<NL, NL>>)
    ELSE <<>>

\* parser.py 110-130: the skip flag after visiting child e
SkipAfterMutH3(e, skip) ==
    IF e.name \in {"h2", "h3"} THEN is_excluded(e) ELSE skip

SkipAfterMutH2(e, skip) ==
    IF e.name \in {"h2", "h3"} THEN skip \/ is_excluded(e) ELSE skip

SkipAfter(e, skip) ==
    IF e.name = "h2" THEN is_excluded(e)
    ELSE IF e.name = "h3" THEN (skip \/ is_excluded(e))
    ELSE skip

\* parser.py 123-124, 127-129, 132-133: the child is passed over (continue)
DroppedMutHeading(e, skip) ==
    SkipAfter(e, skip) /\ e.name \notin {"h2", "h3"}

Dropped(e, skip) ==
    \/ e.name \in {"h2", "h3"} /\ is_excluded(e)
    \/ SkipAfter(e, skip)

-----------------------------------------------------------------------------
(* SEPParser.get_main_content as a loop over main_text.children *)

MaxKids == 4

\* an element whose only child is a text node
Leaf(n, s) == El(n, <<Txt(s)>>)

\* the spec's example container (section 8, property 5)
ExclusionExample ==
    << Leaf("h2", <<"Intro">>), Leaf("p", <<"A">>),
       Leaf("h2", <<"Related Entries">>), Leaf("p", <<"B">>),
       Leaf("h3", <<"Sub">>), Leaf("p", <<"C">>),
       Leaf("h2", <<"More">>), Leaf("p", <<"D">>) >>

\* the children the loop is run on
McElems ==
    { Leaf("h2", <<"Intro">>),
      Leaf("h2", <<"RELATED ENTRIES">>),
      Leaf("h2", <<"3", ".", " ", "Bibliography">>),
      Leaf("h3", <<"Sub">>),
      Leaf("h3", <<"References">>),
      Leaf("p", <<"A", " ", "\\(", "x", "\\)">>),
      El("div", <<Leaf("p", <<"B">>), Txt(<<NL>>), Leaf("p", <<"C">>)>>),
      Txt(<<NL>>) }

\* every sequence of up to MaxKids of them, the example, and containers
\* with a div child that holds a heading and a paragraph
McInputs ==
    UNION {[1..n -> McElems] : n \in 0..MaxKids} \cup {ExclusionExample}
    \cup { <<Leaf("h2", <<"Intro">>), El("div", <<h, Leaf("p", <<"R">>)>>),
            Leaf("p", <<"D">>)>> :
               h \in {Leaf("h2", <<"Related Entries">>), Leaf("h3", <<"References">>),
                      Leaf("h2", <<"3", ".", " ", "Bibliography">>),
                      Leaf("h2", <<"More">>)} }

\* the state at the call of get_main_content (pc "start"), or before it
McInit(inputs, pc) ==
    /\ has_main \in (IF inputs # {} THEN BOOLEAN ELSE {FALSE})
    /\ children \in (IF has_main THEN inputs ELSE {<<>>})
    /\ idx = 1
    /\ skip_until_next_h2 = FALSE
    /\ lines = <<>>
    /\ line_src = <<>>
    /\ mc_result = <<>>
    /\ mc_pc = pc

\* parser.py 95-103
McFind ==
    /\ mc_pc = "start"
    /\ IF has_main
       THEN mc_pc' = "loop" /\ mc_result' = mc_result
       ELSE mc_pc' = "done" /\ mc_result' = <<>>
    /\ UNCHANGED <<has_main, children, idx, skip_until_next_h2, lines, line_src>>
    /\ UNCHANGED <<mxVars, scVars, fnVars, asVars, e2Vars, callVars, saVars, trVars, baVars>>

\* parser.py 106-107: a child that is no element
McText ==
    /\ mc_pc = "loop"
    /\ idx <= Len(children)
    /\ ~IsTag(children[idx])
    /\ idx' = idx + 1
    /\ UNCHANGED <<has_main, children, skip_until_next_h2, lines, line_src,
                   mc_result, mc_pc>>
    /\ UNCHANGED <<mxVars, scVars, fnVars, asVars, e2Vars, callVars, saVars, trVars, baVars>>

\* parser.py 109-139: one element child
McVisit ==
    /\ mc_pc = "loop"
    /\ idx <= Len(children)
    /\ IsTag(children[idx])
    /\ LET e == children[idx]
           converted == convert_element(e)
       IN  /\ skip_until_next_h2' = SkipAfter(e, skip_until_next_h2)
           /\ IF Dropped(e, skip_until_next_h2) \/ converted = <<>>
              THEN UNCHANGED <<lines, line_src>>
              ELSE /\ lines' = lines \o <<converted, <<>>>>
                   /\ line_src' = line_src \o <<idx, idx>>
    /\ idx' = idx + 1
    /\ UNCHANGED <<has_main, children, mc_result, mc_pc>>
    /\ UNCHANGED <<mxVars, scVars, fnVars, asVars, e2Vars, callVars, saVars, trVars, baVars>>

\* parser.py 141-146
McFinish ==
    /\ mc_pc = "loop"
    /\ idx > Len(children)
    /\ mc_result' = Strip(convert_text(Join(lines, <<NL>>)))
    /\ mc_pc' = "done"
    /\ UNCHANGED <<has_main, children, idx, skip_until_next_h2, lines, line_src>>
    /\ UNCHANGED <<mxVars, scVars, fnVars, asVars, e2Vars, callVars, saVars, trVars, baVars>>

McNext == McFind \/ McText \/ McVisit \/ McFinish

-----------------------------------------------------------------------------
(* Section exclusion *)

\* the names the section-exclusion rule is stated with
ExcludedNames ==
    { <<"related entries">>, <<"academic tools">>, <<"other internet resources">>,
      <<"acknowledgments">>, <<"appendices">>, <<"bibliography">>, <<"references">> }

HasExcludedName(e) ==
    e.name \in {"h2", "h3"} /\ NormalizedHeading(e) \in ExcludedNames

\* child j lies after an excluded heading and before the next non-excluded h2
InExcludedRegion(j) ==
    \E h \in 1..(j - 1) :
        /\ HasExcludedName(children[h])
        /\ \A m \in (h + 1)..j :
               ~(children[m].name = "h2" /\ ~HasExcludedName(children[m]))

\* C1: no line of the output comes from a child that follows an excluded
\* heading (level 2 or 3) and precedes the next non-excluded level-2 heading;
\* on the example container the result holds A and D and neither B nor C.
C1_ExcludedRegionSilent ==
    /\ \A k \in DOMAIN line_src : ~InExcludedRegion(line_src[k])
    /\ (mc_pc = "done" /\ children = ExclusionExample) =>
           /\ Contains(mc_result, <<"A">>)
           /\ Contains(mc_result, <<"D">>)
           /\ ~Contains(mc_result, <<"B">>)
           /\ ~Contains(mc_result, <<"C">>)

\* C27: the main content holds no heading whose normalized text is an
\* excluded name, and no paragraph that follows such a heading, also when
\* the heading is not a child of the container but lies in a div child.
C27_NoExcludedHeadingInDiv ==
    mc_pc = "done" =>
        /\ \A i \in DOMAIN children :
               HasExcludedName(children[i]) =>
                   ~Contains(mc_result, convert_heading(children[i]))
        /\ \A i \in DOMAIN children :
               children[i].name = "div" =>
                   \A k \in DOMAIN children[i].kids :
                       HasExcludedName(children[i].kids[k]) =>
                           /\ ~Contains(mc_result, convert_heading(children[i].kids[k]))
                           /\ \A m \in (k + 1)..Len(children[i].kids) :
                                  children[i].kids[m].name = "p" =>
                                      ~Contains(mc_result,
                                                get_text_strip(children[i].kids[m]))

C1_Witness ==
    /\ mc_pc = "done"
    /\ children = ExclusionExample
    /\ mc_result = <<"##", " ", "Intro", NL, NL, "A", NL, NL,
                     "##", " ", "More", NL, NL, "D">>

\* the loop is about to visit an element child with the given tag name
AtChild(n) ==
    mc_pc = "loop" /\ idx <= Len(children) /\ children[idx].name = n

\* C2: after a level-2 heading the state is "excluding" exactly when the
\* heading's normalized text is an excluded name, whatever the state before;
\* an excluded level-2 heading adds no line, a non-excluded one is emitted.
C2_H2SetsState ==
    [][AtChild("h2") =>
          /\ skip_until_next_h2' = (NormalizedHeading(children[idx]) \in ExcludedNames)
          /\ IF NormalizedHeading(children[idx]) \in ExcludedNames
             THEN lines' = lines
             ELSE lines' = lines \o <<convert_heading(children[idx]), <<>>>>]_vars

\* an h2 met while excluding has re-enabled content, and a numbered,
\* capitalised "3. Bibliography" has started an exclusion
C2_Witness ==
    /\ mc_pc = "loop"
    /\ idx = 5
    /\ children[1] = Leaf("h2", <<"3", ".", " ", "Bibliography">>)
    /\ children[2].name = "p"
    /\ children[3] = Leaf("h2", <<"Intro">>)
    /\ children[4].name = "p"
    /\ ~skip_until_next_h2
    /\ line_src = <<3, 3, 4, 4>>

\* C3: an excluded level-3 heading starts excluding and is dropped; a
\* non-excluded one leaves the state unchanged and is dropped while excluding;
\* only a level-2 heading takes the state from excluding to including.
C3_H3NeverReenables ==
    /\ [][AtChild("h3") =>
             IF NormalizedHeading(children[idx]) \in ExcludedNames
             THEN skip_until_next_h2' /\ lines' = lines
             ELSE /\ skip_until_next_h2' = skip_until_next_h2
                  /\ (skip_until_next_h2 => lines' = lines)]_vars
    /\ [][(skip_until_next_h2 /\ ~skip_until_next_h2') => AtChild("h2")]_vars

\* excluded h2, then a non-excluded h3 and a paragraph, all dropped
C3_Witness ==
    /\ mc_pc = "loop"
    /\ idx = 4
    /\ children[1] = Leaf("h2", <<"RELATED ENTRIES">>)
    /\ children[2] = Leaf("h3", <<"Sub">>)
    /\ children[3].name = "p"
    /\ skip_until_next_h2
    /\ lines = <<>>

-----------------------------------------------------------------------------
(* converters/math.py: macro expansion.  LaTeX strings are sequences of      *)
(* single characters; positions are 1-based (Python index + 1).              *)

\* [a-zA-Z], over the characters of the model
Letters == {"a", "b", "c", "d", "e", "f", "g", "x", "y"}

Macro(n, e, k) == [name |-> n, expansion |-> e, num_args |-> k]

\* the pattern \name(?![a-zA-Z]) matches at position p
MatchAt(text, name, p) ==
    /\ StartsAt(text, <<"\\">> \o name, p)
    /\ \/ p + Len(name) + 1 > Len(text)
       \/ text[p + Len(name) + 1] \notin Letters

\* pattern.search(text, pos): start of the first match at or after pos, 0 if none
SearchFrom(text, name, pos) ==
    LET hits == {q \in pos..Len(text) : MatchAt(text, name, q)}
    IN  IF hits = {} THEN 0 ELSE CHOOSE q \in hits : \A r \in hits : q <= r

RECURSIVE BraceScan(_, _, _)
\* math.py 36-46: the while loop; gives <<pos, depth>> at its exit
BraceScan(text, pos, depth) ==
    IF pos <= Len(text) /\ depth > 0
    THEN IF text[pos] = "{" THEN BraceScan(text, pos + 1, depth + 1)
         ELSE IF text[pos] = "}" THEN BraceScan(text, pos + 1, depth - 1)
         ELSE IF text[pos] = "\\" /\ pos + 1 <= Len(text)
              THEN BraceScan(text, pos + 2, depth)
         ELSE BraceScan(text, pos + 1, depth)
    ELSE <<pos, depth>>

\* MathConverter._extract_brace_arg; end is the position after the "}"
extract_brace_arg(text, start) ==
    LET r == BraceScan(text, start + 1, 1)
    IN  IF start > Len(text) \/ text[start] # "{" \/ r[2] # 0
        THEN [ok |-> FALSE, content |-> <<>>, end |-> 0]
        ELSE [ok |-> TRUE, content |-> SubSeq(text, start + 1, r[1] - 2),
              end |-> r[1]]

RECURSIVE SkipWs(_, _)
\* math.py 127-128
SkipWs(text, pos) ==
    IF pos <= Len(text) /\ text[pos] \in {" ", "\t", "\n"}
    THEN SkipWs(text, pos + 1) ELSE pos

RECURSIVE ExtractArgs(_, _, _)
\* math.py 125-135: n arguments from arg_pos on
ExtractArgs(text, arg_pos, n) ==
    IF n = 0 THEN [ok |-> TRUE, args |-> <<>>, pos |-> arg_pos]
    ELSE LET ex == extract_brace_arg(text, SkipWs(text, arg_pos))
         IN  IF ~ex.ok THEN [ok |-> FALSE, args |-> <<>>, pos |-> 0]
             ELSE LET rest == ExtractArgs(text, ex.end, n - 1)
                  IN  [ok |-> rest.ok,
                       args |-> <<ex.content>> \o rest.args,
                       pos |-> rest.pos]

RECURSIVE Replace(_, _, _)
\* str.replace(sub, rep), sub non-empty
Replace(s, sub, rep) ==
    LET i == Find(s, sub)
    IN  IF i = 0 \/ s = <<>> THEN s
        ELSE SubSeq(s, 1, i - 1) \o rep
                 \o Replace(SubSeq(s, i + Len(sub), Len(s)), sub, rep)

RECURSIVE Substitute(_, _, _)
\* math.py 139-141: "#i" replaced by argument i, for i = k, k+1, ...
Substitute(expanded, args, k) ==
    IF k > Len(args) THEN expanded
    ELSE Substitute(Replace(expanded, <<"#", ToString(k)>>, args[k]), args, k + 1)

\* math.py 111-147: one iteration of the while loop of
\* _expand_macro_with_args: the text appended to result, and the new pos
ScanStepMutConsume(text, pos, name, expansion, num_args) ==
    LET m == SearchFrom(text, name, pos)
        mend == m + Len(name) + 1
        ex == ExtractArgs(text, mend, num_args)
    IN  IF m = 0 THEN [out |-> SubSeq(text, pos, Len(text)), pos |-> Len(text) + 1]
        ELSE IF ex.ok
        THEN [out |-> SubSeq(text, pos, m - 1) \o Substitute(expansion, ex.args, 1),
              pos |-> ex.pos]
        ELSE [out |-> SubSeq(text, pos, mend - 1), pos |-> SkipWs(text, mend)]

ScanStep(text, pos, name, expansion, num_args) ==
    LET m == SearchFrom(text, name, pos)
        mend == m + Len(name) + 1
        ex == ExtractArgs(text, mend, num_args)
    IN  IF m = 0 THEN [out |-> SubSeq(text, pos, Len(text)), pos |-> Len(text) + 1]
        ELSE IF ex.ok /\ Len(ex.args) = num_args
        THEN [out |-> SubSeq(text, pos, m - 1) \o Substitute(expansion, ex.args, 1),
              pos |-> ex.pos]
        ELSE [out |-> SubSeq(text, pos, mend - 1), pos |-> mend]

RECURSIVE ExpandFrom(_, _, _, _, _)
\* math.py 111-149: the iterations of the while loop from pos on
ExpandFrom(text, pos, name, expansion, num_args) ==
    IF pos > Len(text) THEN <<>>
    ELSE LET st == ScanStep(text, pos, name, expansion, num_args)
         IN  st.out \o ExpandFrom(text, st.pos, name, expansion, num_args)

\* MathConverter._expand_macro_with_args
expand_macro_with_args(text, name, expansion, num_args) ==
    ExpandFrom(text, 1, name, expansion, num_args)

RECURSIVE SubAll(_, _, _, _)
\* math.py 74-75: re.sub(pattern, lambda m: expansion, text), from pos on
SubAll(text, pos, name, expansion) ==
    LET m == SearchFrom(text, name, pos)
    IN  IF m = 0 THEN SubSeq(text, pos, Len(text))
        ELSE SubSeq(text, pos, m - 1) \o expansion
                 \o SubAll(text, m + Len(name) + 1, name, expansion)

\* math.py 72-87: the new result after one macro of the table
ApplyMacro(result, mac) ==
    IF mac.num_args = 0 THEN SubAll(result, 1, mac.name, mac.expansion)
    ELSE expand_macro_with_args(result, mac.name, mac.expansion, mac.num_args)

-----------------------------------------------------------------------------
(* MathConverter._expand_macros as a loop of passes over the macro table *)

MAX_PASSES == 5

MaxPieces == 3

\* the inputs are concatenations of at most MaxPieces of these
MxPieces ==
    { <<"\\", "a">>, <<"\\", "b">>, <<"x">>, <<" ">>,
      <<"\\", "f", "{", "x", "}">>, <<"\\", "f">>, <<"{">>, <<"}">>,
      <<"\\", "}">> }

MxTexts ==
    UNION {{Concat(ps) : ps \in [1..n -> MxPieces]} : n \in 0..MaxPieces}

\* macro tables: empty; two macros that expand into each other; a nested
\* pair in both table orders; an argument macro before a simple one; a macro
\* whose expansion holds its own invocation; a chain of six macros, each
\* expanding into the next, in both table orders
MxTables ==
    { <<>>,
      <<Macro(<<"a">>, <<"\\", "b">>, 0), Macro(<<"b">>, <<"\\", "a">>, 0)>>,
      <<Macro(<<"a">>, <<"\\", "b">>, 0), Macro(<<"b">>, <<"y">>, 0)>>,
      <<Macro(<<"b">>, <<"y">>, 0), Macro(<<"a">>, <<"\\", "b">>, 0)>>,
      <<Macro(<<"f">>, <<"[", "#", "1", "]">>, 1), Macro(<<"a">>, <<"{">>, 0)>>,
      <<Macro(<<"a">>, <<"\\", "a", " ", "x">>, 0)>>,
      <<Macro(<<"a">>, <<"\\", "b">>, 0), Macro(<<"b">>, <<"\\", "c">>, 0),
        Macro(<<"c">>, <<"\\", "d">>, 0), Macro(<<"d">>, <<"\\", "e">>, 0),
        Macro(<<"e">>, <<"\\", "g">>, 0), Macro(<<"g">>, <<"y">>, 0)>>,
      <<Macro(<<"g">>, <<"y">>, 0), Macro(<<"e">>, <<"\\", "g">>, 0),
        Macro(<<"d">>, <<"\\", "e">>, 0), Macro(<<"c">>, <<"\\", "d">>, 0),
        Macro(<<"b">>, <<"\\", "c">>, 0), Macro(<<"a">>, <<"\\", "b">>, 0)>> }

MxInit(run) ==
    /\ mx_macros \in (IF run THEN MxTables ELSE {<<>>})
    /\ mx_latex \in (IF run THEN MxTexts ELSE {<<>>})
    /\ mx_result = <<>>
    /\ mx_pass = 0
    /\ mx_i = 1
    /\ mx_changed = FALSE
    /\ mx_steps = 0
    /\ mx_pc = (IF run THEN "start" ELSE "idle")

\* math.py 69: the for loop has another pass to run
MorePassesMutOffByOne(pass) == pass < MAX_PASSES + 1

MorePasses(pass) == pass < MAX_PASSES

\* math.py 64-67
MxStart ==
    /\ mx_pc = "start"
    /\ mx_result' = mx_latex
    /\ mx_pc' = IF mx_macros = <<>> THEN "done" ELSE "loop"
    /\ UNCHANGED <<mx_macros, mx_latex, mx_pass, mx_i, mx_changed>>
    /\ mx_steps' = mx_steps + 1
    /\ UNCHANGED <<mcVars, scVars, fnVars, asVars, e2Vars, callVars, saVars, trVars, baVars>>

\* math.py 69-70: the next pass begins
MxBeginPass ==
    /\ mx_pc = "loop"
    /\ MorePasses(mx_pass)
    /\ mx_pass' = mx_pass + 1
    /\ mx_changed' = FALSE
    /\ mx_i' = 1
    /\ mx_pc' = "pass"
    /\ UNCHANGED <<mx_macros, mx_latex, mx_result>>
    /\ mx_steps' = mx_steps + 1
    /\ UNCHANGED <<mcVars, scVars, fnVars, asVars, e2Vars, callVars, saVars, trVars, baVars>>

\* math.py 69, 91: range(5) is exhausted
MxExhausted ==
    /\ mx_pc = "loop"
    /\ ~MorePasses(mx_pass)
    /\ mx_pc' = "done"
    /\ UNCHANGED <<mx_macros, mx_latex, mx_result, mx_pass, mx_i, mx_changed>>
    /\ mx_steps' = mx_steps + 1
    /\ UNCHANGED <<mcVars, scVars, fnVars, asVars, e2Vars, callVars, saVars, trVars, baVars>>

\* math.py 71-87: one macro of the table
MxApply ==
    /\ mx_pc = "pass"
    /\ mx_i <= Len(mx_macros)
    /\ LET new_result == ApplyMacro(mx_result, mx_macros[mx_i])
       IN  /\ mx_result' = new_result
           /\ mx_changed' = (mx_changed \/ new_result # mx_result)
    /\ mx_i' = mx_i + 1
    /\ UNCHANGED <<mx_macros, mx_latex, mx_pass, mx_pc>>
    /\ mx_steps' = mx_steps + 1
    /\ UNCHANGED <<mcVars, scVars, fnVars, asVars, e2Vars, callVars, saVars, trVars, baVars>>

\* math.py 88-89
MxEndPass ==
    /\ mx_pc = "pass"
    /\ mx_i > Len(mx_macros)
    /\ mx_pc' = IF mx_changed THEN "loop" ELSE "done"
    /\ UNCHANGED <<mx_macros, mx_latex, mx_result, mx_pass, mx_i, mx_changed>>
    /\ mx_steps' = mx_steps + 1
    /\ UNCHANGED <<mcVars, scVars, fnVars, asVars, e2Vars, callVars, saVars, trVars, baVars>>

MxNext == MxStart \/ MxBeginPass \/ MxExhausted \/ MxApply \/ MxEndPass

\* the guards of MxStart, MxBeginPass, MxExhausted, MxApply and MxEndPass
MxCanStep ==
    \/ mx_pc = "start"
    \/ mx_pc = "loop" /\ MorePasses(mx_pass)
    \/ mx_pc = "loop" /\ ~MorePasses(mx_pass)
    \/ mx_pc = "pass" /\ mx_i <= Len(mx_macros)
    \/ mx_pc = "pass" /\ mx_i > Len(mx_macros)

\* C4: _expand_macros never begins more than 5 passes and always returns:
\* it takes at most 5 * (table size + 2) + 2 steps, and until it has returned
\* one of its steps is possible; so also for two macros that expand into
\* each other.
C4_ExpansionTerminates ==
    /\ mx_pass <= 5
    /\ mx_steps <= 5 * (Len(mx_macros) + 2) + 2
    /\ mx_pc \in {"start", "loop", "pass", "done"}
    /\ (mx_pc # "done" => MxCanStep)

\* the circular pair after the fifth pass: returned, still holding a macro
C4_Witness ==
    /\ mx_pc = "done"
    /\ mx_macros = <<Macro(<<"a">>, <<"\\", "b">>, 0), Macro(<<"b">>, <<"\\", "a">>, 0)>>
    /\ mx_latex = <<"\\", "a", " ", "\\", "b">>
    /\ mx_pass = 5
    /\ mx_changed
    /\ mx_result = <<"\\", "a", " ", "\\", "a">>

\* the expansion of macro i of the table holds an invocation of macro j
Refers(table, i, j) ==
    SearchFrom(table[i].expansion, table[j].name, 1) # 0

RECURSIVE ReachIn(_, _, _, _)
\* macro j is reached from macro i in at most n expansions
ReachIn(table, i, j, n) ==
    /\ n > 0
    /\ \/ Refers(table, i, j)
       \/ \E k \in DOMAIN table : Refers(table, i, k) /\ ReachIn(table, k, j, n - 1)

Circular(table) ==
    \E i \in DOMAIN table : ReachIn(table, i, i, Len(table))

\* C28: for a macro table without circular definitions the output of
\* _expand_macros is a fixed point, whatever the depth of nesting and the
\* order of the table: it holds no invocation of a zero-argument macro of
\* the table, and no macro of the table changes it.
C28_FixedPoint ==
    (mx_pc = "done" /\ ~Circular(mx_macros)) =>
        \A i \in DOMAIN mx_macros :
            /\ mx_macros[i].num_args = 0 =>
                   SearchFrom(mx_result, mx_macros[i].name, 1) = 0
            /\ ApplyMacro(mx_result, mx_macros[i]) = mx_result

-----------------------------------------------------------------------------
(* MathConverter._expand_macro_with_args as a scan over the text *)

ScMacros ==
    { Macro(<<"f">>, <<"[", "#", "1", "]">>, 1),
      Macro(<<"f">>, <<"[", "#", "1", "|", "#", "2", "]">>, 2) }

ScInit(run) ==
    /\ sc_text \in (IF run THEN MxTexts ELSE {<<>>})
    /\ sc_macro \in (IF run THEN ScMacros ELSE {Macro(<<>>, <<>>, 0)})
    /\ sc_pos = 1
    /\ sc_out = <<>>
    /\ sc_pc = (IF run THEN "scan" ELSE "idle")

\* math.py 111-147: one iteration of the while loop
ScIter ==
    /\ sc_pc = "scan"
    /\ sc_pos <= Len(sc_text)
    /\ LET st == ScanStep(sc_text, sc_pos, sc_macro.name, sc_macro.expansion,
                          sc_macro.num_args)
       IN  /\ sc_out' = sc_out \o st.out
           /\ sc_pos' = st.pos
    /\ UNCHANGED <<sc_text, sc_macro, sc_pc>>
    /\ UNCHANGED <<mcVars, mxVars, fnVars, asVars, e2Vars, callVars, saVars, trVars, baVars>>

\* math.py 111, 149
ScReturn ==
    /\ sc_pc = "scan"
    /\ sc_pos > Len(sc_text)
    /\ sc_pc' = "done"
    /\ UNCHANGED <<sc_text, sc_macro, sc_pos, sc_out>>
    /\ UNCHANGED <<mcVars, mxVars, fnVars, asVars, e2Vars, callVars, saVars, trVars, baVars>>

ScNext == ScIter \/ ScReturn

RECURSIVE BackslashRun(_, _)
\* the number of consecutive backslashes that end just before position q
BackslashRun(text, q) ==
    IF q > 1 /\ text[q - 1] = "\\" THEN 1 + BackslashRun(text, q - 1) ELSE 0

\* text[q] is a brace that no backslash escapes
IsBrace(text, q, b) == text[q] = b /\ BackslashRun(text, q) % 2 = 0

\* "{" minus "}" over positions s..q, the group opening at s
BraceBalance(text, s, q) ==
    Cardinality({r \in s..q : r = s \/ IsBrace(text, r, "{")})
        - Cardinality({r \in (s + 1)..q : IsBrace(text, r, "}")})

\* the position after the balanced brace group that opens at s, 0 when the
\* text has no "{" at s or the group is never closed
GroupEnd(text, s) ==
    IF s > Len(text) \/ text[s] # "{" THEN 0
    ELSE LET ends == {e \in (s + 1)..Len(text) :
                         IsBrace(text, e, "}") /\ BraceBalance(text, s, e) = 0}
         IN  IF ends = {} THEN 0
             ELSE (CHOOSE e \in ends : \A e2 \in ends : e <= e2) + 1

RECURSIVE GroupsEnd(_, _, _)
\* the position after n contiguous balanced groups (white space allowed
\* before each) that start at p, 0 when there are fewer
GroupsEnd(text, p, n) ==
    IF n = 0 THEN p
    ELSE LET e == GroupEnd(text, SkipWs(text, p))
         IN  IF e = 0 THEN 0 ELSE GroupsEnd(text, e, n - 1)

\* every invocation of the macro in the text lacks its brace groups
NoneExpandable(text, mac) ==
    \A m \in 1..Len(text) :
        MatchAt(text, mac.name, m) =>
            GroupsEnd(text, m + Len(mac.name) + 1, mac.num_args) = 0

\* C5: an invocation met by the scan that is not followed by num_args
\* balanced brace groups is copied as it stands and the scan resumes right
\* after the macro name; an invocation that has its groups is replaced and the
\* scan resumes after them; a text none of whose invocations has its groups
\* is returned unchanged.
C5_FailedInvocationKept ==
    [][LET m == SearchFrom(sc_text, sc_macro.name, sc_pos)
           mend == m + Len(sc_macro.name) + 1
           gend == GroupsEnd(sc_text, mend, sc_macro.num_args)
       IN  /\ (sc_pc = "scan" /\ sc_pos <= Len(sc_text) /\ m # 0) =>
                  IF gend = 0
                  THEN /\ sc_out' = sc_out \o SubSeq(sc_text, sc_pos, mend - 1)
                       /\ sc_pos' = mend
                  ELSE /\ StartsAt(sc_out', sc_out \o SubSeq(sc_text, sc_pos, m - 1), 1)
                       /\ sc_out' # sc_out \o SubSeq(sc_text, sc_pos, gend - 1)
                       /\ sc_pos' = gend
           /\ (sc_pc' = "done" /\ NoneExpandable(sc_text, sc_macro)) =>
                  sc_out' = sc_text]_vars

\* \f{\f{x} : the first invocation's brace is never closed and it is kept,
\* the second one is expanded
C5_Witness ==
    /\ sc_pc = "done"
    /\ sc_macro.num_args = 1
    /\ sc_text = <<"\\", "f", "{", "\\", "f", "{", "x", "}">>
    /\ sc_out = <<"\\", "f", "{", "[", "x", "]">>

-----------------------------------------------------------------------------
(* FootnoteConverter.format_definitions (footnotes.py 127-149) *)

MaxNotes == 3

RECURSIVE IntOf(_)
\* int(num) of a string of decimal digits
IntOf(num) ==
    IF num = <<>> THEN 0
    ELSE 10 * IntOf(SubSeq(num, 1, Len(num) - 1))
             + (CHOOSE d \in 0..9 : ToString(d) = num[Len(num)])

\* the sort key of sorted(keys, key=int)
SortKeyMutLexical(num) ==
    IF num = <<>> THEN 0
    ELSE 11 * (IntOf(<<num[1]>>) + 1)
             + (IF Len(num) > 1 THEN IntOf(<<num[2]>>) + 1 ELSE 0)

SortKey(num) == IntOf(num)

RECURSIVE Sorted(_)
\* sorted(keys, key=...): ascending by key, keys of equal value in the order given
Sorted(keys) ==
    IF keys = <<>> THEN <<>>
    ELSE LET h == Head(keys)
             rest == Sorted(Tail(keys))
         IN  SelectSeq(rest, LAMBDA k : SortKey(k) < SortKey(h)) \o <<h>>
                 \o SelectSeq(rest, LAMBDA k : SortKey(k) >= SortKey(h))

RECURSIVE Split(_, _)
\* s.split(sep), sep not empty
Split(s, sep) ==
    LET i == Find(s, sep)
    IN  IF i = 0 THEN <<s>>
        ELSE <<SubSeq(s, 1, i - 1)>> \o Split(SubSeq(s, i + Len(sep), Len(s)), sep)

\* the lines format_definitions appends for one definition
DefinitionLines(num, content) ==
    LET content_lines == Split(content, <<NL, NL>>)
    IN  <<(<<"[^">> \o num \o <<"]:", " ">> \o content_lines[1])>>
            \o [i \in 1..(Len(content_lines) - 1) |->
                    <<" ", " ", " ", " ">> \o content_lines[i + 1]]
            \o << <<>> >>

\* self._definitions as the sequence of its items, in insertion order
FnInputs ==
    LET nums == {<<"1">>, <<"2">>, <<"1", "0">>, <<"0", "3">>}
        bodies == {<<"n">>, <<"a", NL, NL, "b">>}
        items == [num : nums, content : bodies]
    IN  {d \in UNION {[1..n -> items] : n \in 0..MaxNotes} :
            \A i, j \in DOMAIN d : i # j => d[i].num # d[j].num}

FnInit(run) ==
    /\ fn_definitions \in (IF run THEN FnInputs ELSE {<<>>})
    /\ fn_order = <<>>
    /\ fn_k = 1
    /\ fn_lines = <<>>
    /\ fn_result = <<>>
    /\ fn_pc = (IF run THEN "start" ELSE "idle")

\* footnotes.py 133-137
FnStart ==
    /\ fn_pc = "start"
    /\ IF fn_definitions = <<>>
       THEN fn_pc' = "done" /\ fn_order' = fn_order
       ELSE /\ fn_pc' = "loop"
            /\ fn_order' = Sorted([i \in DOMAIN fn_definitions |->
                                       fn_definitions[i].num])
    /\ UNCHANGED <<fn_definitions, fn_k, fn_lines, fn_result>>
    /\ UNCHANGED <<mcVars, mxVars, scVars, asVars, e2Vars, callVars, saVars, trVars, baVars>>

\* footnotes.py 137-147: one iteration of the loop
FnEmit ==
    /\ fn_pc = "loop"
    /\ fn_k <= Len(fn_order)
    /\ LET num == fn_order[fn_k]
           content == (CHOOSE i \in DOMAIN fn_definitions :
                           fn_definitions[i].num = num)
       IN  fn_lines' = fn_lines \o DefinitionLines(num, fn_definitions[content].content)
    /\ fn_k' = fn_k + 1
    /\ UNCHANGED <<fn_definitions, fn_order, fn_result, fn_pc>>
    /\ UNCHANGED <<mcVars, mxVars, scVars, asVars, e2Vars, callVars, saVars, trVars, baVars>>

\* footnotes.py 149
FnFinish ==
    /\ fn_pc = "loop"
    /\ fn_k > Len(fn_order)
    /\ fn_result' = RStrip(Join(fn_lines, <<NL>>))
    /\ fn_pc' = "done"
    /\ UNCHANGED <<fn_definitions, fn_order, fn_k, fn_lines>>
    /\ UNCHANGED <<mcVars, mxVars, scVars, asVars, e2Vars, callVars, saVars, trVars, baVars>>

FnNext == FnStart \/ FnEmit \/ FnFinish

RECURSIVE Labels(_)
\* the numbers of the definition labels [^N]: of a text, in the order they occur
Labels(s) ==
    IF s = <<>> THEN <<>>
    ELSE IF Head(s) = "[^"
         THEN LET j == Find(s, <<"]:">>)
              IN  <<SubSeq(s, 2, j - 1)>> \o Labels(SubSeq(s, j + 1, Len(s)))
         ELSE Labels(Tail(s))

\* C6: the block format_definitions returns carries one label per definition
\* of the map, each key once, and the labels are in ascending order of
\* int(key) whatever the insertion order (strictly ascending between keys of
\* different value).
C6_NumericOrder ==
    fn_pc = "done" =>
        LET out == Labels(fn_result)
        IN  /\ Len(out) = Len(fn_definitions)
            /\ \A i \in DOMAIN fn_definitions :
                   Cardinality({j \in DOMAIN out : out[j] = fn_definitions[i].num}) = 1
            /\ \A i, j \in DOMAIN out : i < j => IntOf(out[i]) <= IntOf(out[j])

\* keys inserted as 10, 2, 1 are output as 1, 2, 10
C6_Witness ==
    /\ fn_pc = "done"
    /\ [i \in DOMAIN fn_definitions |-> fn_definitions[i].num]
           = << <<"1", "0">>, <<"2">>, <<"1">> >>
    /\ Labels(fn_result) = << <<"1">>, <<"2">>, <<"1", "0">> >>

-----------------------------------------------------------------------------
(* metadata.py: the frontmatter block *)

\* Python None: a value that no string of the model equals
None == <<"<None>">>

\* metadata._quote_value, for None and str values
quote_value(value) ==
    IF value = None THEN <<"null">>
    ELSE <<"\"">>
             \o Concat([i \in DOMAIN value |->
                    IF value[i] = "\"" THEN <<"\\", "\"">> ELSE <<value[i]>>])
             \o <<"\"">>

\* metadata.format_frontmatter
format_frontmatter(metadata) ==
    Join(<< <<"---">>,
            <<"title:", " ">> \o quote_value(metadata.title),
            <<"author:", " ">> \o quote_value(metadata.author),
            <<"published:", " ">> \o quote_value(metadata.published),
            <<"revised:", " ">> \o quote_value(metadata.revised),
            <<"url:", " ">> \o quote_value(metadata.url),
            <<"---">> >>, <<NL>>) \o <<NL>>

-----------------------------------------------------------------------------
(* assembler.assemble_markdown (assembler.py 6-61) *)

MaxAppendices == 2

\* assembler.py 42-47: the parts appended for the appendices
AppendixParts(appendices) ==
    Concat([i \in DOMAIN appendices |->
        << <<>>, <<"##", " ", "Appendix", " ">> \o appendices[i].title,
           <<>>, appendices[i].content >>])

\* assembler.py 50-54: the parts appended for the footnotes
NotesPartsMutAlways(footnotes) ==
    << <<>>, <<"##", " ", "Notes">>, <<>>, footnotes >>

NotesParts(footnotes) ==
    IF footnotes # <<>>
    THEN << <<>>, <<"##", " ", "Notes">>, <<>>, footnotes >>
    ELSE <<>>

\* the arguments assemble_markdown is called with
AsInputs ==
    LET pool == { [title |-> <<"A">>, content |-> <<"X">>],
                  [title |-> <<"B">>, content |-> <<"Y">>],
                  [title |-> <<"C">>, content |-> <<"Z">>] }
    IN  [ metadata : [title : {None, <<"Test">>, <<"Q", "\"", "R">>},
                      author : {None}, published : {None}, revised : {None},
                      url : {<<"https://plato.stanford.edu/entries/t/">>}],
          content : {<<>>, <<"##", " ", "S", NL, NL, "M">>},
          footnotes : {<<>>, <<"[^", "1", "]:", " ", "n">>},
          bibliography : {<<>>, <<"##", " ", "Bibliography", NL, NL, "-", " ", "E">>},
          appendices : {a \in UNION {[1..n -> pool] : n \in 0..MaxAppendices} :
                           \A i, j \in DOMAIN a : i # j => a[i] # a[j]},
          preamble : {<<>>, <<"P">>} ]

AsInit(run) ==
    /\ as_args \in (IF run THEN AsInputs ELSE {<<>>})
    /\ as_parts = <<>>
    /\ as_result = <<>>
    /\ as_pc = (IF run THEN "frontmatter" ELSE "idle")

\* assembler.py 27-30
AsFrontmatter ==
    /\ as_pc = "frontmatter"
    /\ as_parts' = <<format_frontmatter(as_args.metadata)>>
    /\ as_pc' = "preamble"
    /\ UNCHANGED <<as_args, as_result>>
    /\ UNCHANGED <<mcVars, mxVars, scVars, fnVars, e2Vars, callVars, saVars, trVars, baVars>>

\* assembler.py 33-35
AsPreamble ==
    /\ as_pc = "preamble"
    /\ as_parts' = IF as_args.preamble # <<>>
                   THEN as_parts \o <<as_args.preamble, <<>>>>
                   ELSE as_parts
    /\ as_pc' = "content"
    /\ UNCHANGED <<as_args, as_result>>
    /\ UNCHANGED <<mcVars, mxVars, scVars, fnVars, e2Vars, callVars, saVars, trVars, baVars>>

\* assembler.py 38-39
AsContent ==
    /\ as_pc = "content"
    /\ as_parts' = IF as_args.content # <<>>
                   THEN Append(as_parts, as_args.content)
                   ELSE as_parts
    /\ as_pc' = "appendices"
    /\ UNCHANGED <<as_args, as_result>>
    /\ UNCHANGED <<mcVars, mxVars, scVars, fnVars, e2Vars, callVars, saVars, trVars, baVars>>

\* assembler.py 42-47
AsAppendices ==
    /\ as_pc = "appendices"
    /\ as_parts' = as_parts \o AppendixParts(as_args.appendices)
    /\ as_pc' = "footnotes"
    /\ UNCHANGED <<as_args, as_result>>
    /\ UNCHANGED <<mcVars, mxVars, scVars, fnVars, e2Vars, callVars, saVars, trVars, baVars>>

\* assembler.py 50-54
AsFootnotes ==
    /\ as_pc = "footnotes"
    /\ as_parts' = as_parts \o NotesParts(as_args.footnotes)
    /\ as_pc' = "bibliography"
    /\ UNCHANGED <<as_args, as_result>>
    /\ UNCHANGED <<mcVars, mxVars, scVars, fnVars, e2Vars, callVars, saVars, trVars, baVars>>

\* assembler.py 57-59
AsBibliography ==
    /\ as_pc = "bibliography"
    /\ as_parts' = IF as_args.bibliography # <<>>
                   THEN as_parts \o << <<>>, as_args.bibliography >>
                   ELSE as_parts
    /\ as_pc' = "join"
    /\ UNCHANGED <<as_args, as_result>>
    /\ UNCHANGED <<mcVars, mxVars, scVars, fnVars, e2Vars, callVars, saVars, trVars, baVars>>

\* assembler.py 61
AsReturn ==
    /\ as_pc = "join"
    /\ as_result' = Strip(Join(as_parts, <<NL>>)) \o <<NL>>
    /\ as_pc' = "done"
    /\ UNCHANGED <<as_args, as_parts>>
    /\ UNCHANGED <<mcVars, mxVars, scVars, fnVars, e2Vars, callVars, saVars, trVars, baVars>>

AsNext ==
    \/ AsFrontmatter \/ AsPreamble \/ AsContent \/ AsAppendices
    \/ AsFootnotes \/ AsBibliography \/ AsReturn

-----------------------------------------------------------------------------
(* The assembled document *)

NotesHeading == <<"##", " ", "Notes">>

\* the sections the arguments make present, in the fixed order; each with the
\* text it opens with and the text it closes with
PresentSections ==
    LET one(s) == IF s = <<>> THEN <<>> ELSE <<[open |-> s, close |-> s]>>
    IN  <<[open |-> <<"---", NL, "title:">>, close |-> <<"url:", " ">>
              \o quote_value(as_args.metadata.url) \o <<NL, "---">>]>>
        \o one(as_args.preamble)
        \o one(as_args.content)
        \o [i \in DOMAIN as_args.appendices |->
               [open |-> <<"##", " ", "Appendix", " ">> \o as_args.appendices[i].title,
                close |-> as_args.appendices[i].content]]
        \o (IF as_args.footnotes = <<>> THEN <<>>
            ELSE <<[open |-> NotesHeading, close |-> as_args.footnotes]>>)
        \o one(as_args.bibliography)

\* C7: in the document returned, the present sections stand in the order
\* frontmatter, preamble, content, appendices in list order, "## Notes" with
\* the footnotes, bibliography; "## Notes" occurs only with non-empty
\* footnotes and "## Appendix" only with a non-empty appendix list.
C7_SectionOrder ==
    as_pc = "done" =>
        LET secs == PresentSections
            at(s) == Find(as_result, s)
        IN  /\ at(secs[1].open) = 1
            /\ \A i \in DOMAIN secs :
                   at(secs[i].open) # 0 /\ at(secs[i].open) <= at(secs[i].close)
            /\ \A i, j \in DOMAIN secs :
                   i < j => at(secs[i].close) < at(secs[j].open)
            /\ Contains(as_result, NotesHeading) <=> as_args.footnotes # <<>>
            /\ Contains(as_result, <<"##", " ", "Appendix">>)
                   <=> as_args.appendices # <<>>

\* every section present, two appendices
C7_Witness ==
    /\ as_pc = "done"
    /\ as_args.preamble # <<>> /\ as_args.content # <<>>
    /\ Len(as_args.appendices) = 2
    /\ as_args.footnotes # <<>> /\ as_args.bibliography # <<>>
    /\ Find(as_result, NotesHeading)
           < Find(as_result, <<"##", " ", "Bibliography">>)

\* C8: in the document returned, each present section is followed by exactly
\* one blank line and then the next present section, and the document ends
\* with exactly one newline.
C8_OneBlankLine ==
    as_pc = "done" =>
        LET secs == PresentSections
            n == Len(as_result)
        IN  /\ \A i \in 1..(Len(secs) - 1) :
                   Contains(as_result,
                            secs[i].close \o <<NL, NL>> \o secs[i + 1].open)
            /\ n >= 2 /\ as_result[n] = NL /\ as_result[n - 1] # NL

\* C9: for a title that is a string, the document returned holds the line
\* "# <title>" after the frontmatter block.
C9_TitleHeading ==
    (as_pc = "done" /\ as_args.metadata.title # None) =>
        \E i \in (Len(format_frontmatter(as_args.metadata)) - 1)..Len(as_result) :
            StartsAt(as_result,
                     <<NL, "#", " ">> \o as_args.metadata.title \o <<NL>>, i)

-----------------------------------------------------------------------------
(* Whole-document lookups: metadata.py, footnotes.py 28-69, parser.py 226-256,
   converters/bibliography.py *)

WithId(e, id) == [e EXCEPT !.id = id]

RECURSIVE Locate(_, _)
\* the places (parent, index) of the descendants with one of the names,
\* document order: what .parent and find_next_siblings() start from
Locate(e, names) ==
    Concat([i \in DOMAIN e.kids |->
        (IF e.kids[i].name \in names THEN <<[parent |-> e, at |-> i]>> ELSE <<>>)
            \o Locate(e.kids[i], names)])

\* metadata.extract_metadata.  The pages of this model hold no publication
\* line and no div#article-copyright, so the dates and the author are None.
extract_metadata(soup, url) ==
    LET h1 == find_all(soup, {"h1"})
    IN  [title |-> IF h1 # <<>> THEN get_text_strip(h1[1]) ELSE None,
         author |-> None, published |-> None, revised |-> None, url |-> url]

\* footnotes.py 31-44: the notes section as a one-element sequence, <<>> when
\* there is none.  An id holds "note" or "fn" as a token of its own.
notes_section(soup) ==
    LET byId == SelectSeq(find_all(soup, {"div"}), LAMBDA dv :
                    Contains([i \in DOMAIN dv.id |-> Lower(dv.id[i])],
                             <<"note">>))
        heads == SelectSeq(Locate(soup, {"h2", "h3", "h4"}), LAMBDA l :
                    LET t == get_text_strip(l.parent.kids[l.at])
                    IN  [i \in DOMAIN t |-> Lower(t[i])]
                            \in {<<"note">>, <<"notes">>})
    IN  IF byId # <<>> THEN <<byId[1]>>
        ELSE IF heads # <<>> THEN <<heads[1].parent>>
        ELSE <<>>

RECURSIVE DictOf(_)
\* the dict built by assigning the items in order: a repeated key keeps its
\* first position and takes the last value
DictOf(items) ==
    IF items = <<>> THEN <<>>
    ELSE LET d == DictOf(SubSeq(items, 1, Len(items) - 1))
             it == items[Len(items)]
         IN  IF \E i \in DOMAIN d : d[i].num = it.num
             THEN [i \in DOMAIN d |-> IF d[i].num = it.num THEN it ELSE d[i]]
             ELSE Append(d, it)

\* FootnoteConverter._extract_definitions.  A child element that is not a
\* back-reference goes to FootnoteConverter._convert_element, whose first
\* statement reads self._text_converter._convert_inline (footnotes.py 80);
\* TextConverter defines convert_inline only, so the read raises
\* AttributeError and with it the constructor of the parser.
extract_definitions(soup) ==
    LET sec == notes_section(soup)
        elems == IF sec = <<>> THEN <<>>
                 ELSE SelectSeq(find_all(sec[1], {"p", "li"}), LAMBDA e :
                          \/ Contains(e.id, <<"note">>)
                          \/ Contains(e.id, <<"fn">>))
        keyed == SelectSeq(elems, LAMBDA e : FirstDigits(e.id) # <<>>)
        backref(c) == c.name = "a" /\ (\/ StartsAt(c.href, <<"#ref">>, 1)
                                      \/ get_text_strip(c) = <<"^">>)
        raises(e) == \E i \in DOMAIN e.kids :
                         IsTag(e.kids[i]) /\ ~backref(e.kids[i])
        body(e) == Strip(Concat([i \in DOMAIN e.kids |->
                       IF IsTag(e.kids[i]) THEN <<>> ELSE e.kids[i].text]))
    IN  IF \E i \in DOMAIN keyed : raises(keyed[i])
        THEN [raised |-> TRUE, definitions |-> <<>>]
        ELSE [raised |-> FALSE,
              definitions |-> DictOf([i \in DOMAIN keyed |->
                  [num |-> FirstDigits(keyed[i].id), content |-> body(keyed[i])]])]

RECURSIVE bib_convert_list(_, _)
\* BibliographyConverter._convert_list
bib_convert_list(ul, depth) ==
    LET lis == SelectSeq(ul.kids, LAMBDA k : k.name = "li")
        item(li) ==
            LET uls == {j \in DOMAIN li.kids : li.kids[j].name = "ul"}
                at == IF uls = {} THEN 0
                      ELSE CHOOSE j \in uls : \A k \in uls : j <= k
                rest == IF at = 0 THEN li
                        ELSE [li EXCEPT !.kids = SubSeq(li.kids, 1, at - 1)
                                     \o SubSeq(li.kids, at + 1, Len(li.kids))]
                text == Strip(CollapseWs(convert_inline(rest)))
            IN  (IF text # <<>>
                 THEN <<[k \in 1..(2 * depth) |-> " "] \o <<"-", " ">> \o text>>
                 ELSE <<>>)
                \o (IF at # 0 THEN <<bib_convert_list(li.kids[at], depth + 1)>>
                    ELSE <<>>)
    IN  Join(Concat([i \in DOMAIN lis |-> item(lis[i])]), <<NL>>)

\* BibliographyConverter.convert
bib_convert(section) ==
    LET part(e) ==
            IF e.name \in {"h2", "h3", "h4"}
            THEN << <<Hashes(Level(e.name)), " ">> \o get_text_strip(e), <<>> >>
            ELSE IF e.name = "ul" THEN << bib_convert_list(e, 0), <<>> >>
            ELSE IF e.name = "p" /\ convert_inline(e) # <<>>
                 THEN << convert_inline(e), <<>> >>
            ELSE <<>>
    IN  RStrip(Join(Concat([i \in DOMAIN section.kids |-> part(section.kids[i])]),
                    <<NL>>))

RECURSIVE UntilHeading(_)
\* parser.py 248-251: the siblings up to the next h2 or h3
UntilHeading(sibs) ==
    IF sibs = <<>> \/ Head(sibs).name \in {"h2", "h3"} THEN <<>>
    ELSE <<Head(sibs)>> \o UntilHeading(Tail(sibs))

\* SEPParser.get_bibliography
get_bibliographyMutToEnd(soup) ==
    LET hits == SelectSeq(Locate(soup, {"h2", "h3"}), LAMBDA l :
                    NormalizedHeading(l.parent.kids[l.at])
                        \in {<<"bibliography">>, <<"references">>})
    IN  IF hits = <<>> THEN <<>>
        ELSE LET section == hits[1].parent
                 at == hits[1].at
             IN  IF /\ section.name = "div"
                    /\ section.id \notin {<<"main-text">>, <<"aueditable">>}
                 THEN bib_convert(section)
                 ELSE bib_convert(El("div", SelectSeq(
                          SubSeq(section.kids, at, Len(section.kids)), IsTag)))

get_bibliography(soup) ==
    LET hits == SelectSeq(Locate(soup, {"h2", "h3"}), LAMBDA l :
                    NormalizedHeading(l.parent.kids[l.at])
                        \in {<<"bibliography">>, <<"references">>})
    IN  IF hits = <<>> THEN <<>>
        ELSE LET section == hits[1].parent
                 at == hits[1].at
                 after == SelectSeq(SubSeq(section.kids, at + 1, Len(section.kids)),
                                    IsTag)
             IN  IF /\ section.name = "div"
                    /\ section.id \notin {<<"main-text">>, <<"aueditable">>}
                 THEN bib_convert(section)
                 ELSE bib_convert(El("div", <<section.kids[at]>> \o UntilHeading(after)))

\* parser.py 75-87 (and 310-322): the element children converted, each
\* followed by an empty line, joined, passed through the math converter
convert_children(kids) ==
    LET conv(e) == IF IsTag(e) THEN convert_element(e) ELSE <<>>
    IN  Strip(convert_text(Join(Concat([i \in DOMAIN kids |->
            IF conv(kids[i]) # <<>> THEN <<conv(kids[i]), <<>>>> ELSE <<>>]),
            <<NL>>)))

get_preambleMutAnyDiv(soup) ==
    LET divs == find_all(soup, {"div"})
    IN  IF divs = <<>> THEN <<>> ELSE convert_children(divs[1].kids)

\* SEPParser.get_preamble
get_preamble(soup) ==
    LET divs == SelectSeq(find_all(soup, {"div"}), LAMBDA dv : dv.id = <<"preamble">>)
    IN  IF divs = <<>> THEN <<>> ELSE convert_children(divs[1].kids)

\* SEPParser.get_appendix_links: the (url, title) pairs of the list after the
\* first h2 "Appendices"; urljoin of a relative reference on a url ending in
\* "/" appends it, an absolute reference replaces the url
get_appendix_links(soup, url) ==
    LET heads == SelectSeq(Locate(soup, {"h2"}), LAMBDA l :
                     LET t == get_text_strip(l.parent.kids[l.at])
                     IN  [i \in DOMAIN t |-> Lower(t[i])] = <<"appendices">>)
        sibs == SubSeq(heads[1].parent.kids, heads[1].at + 1,
                       Len(heads[1].parent.kids))
        uls == SelectSeq(sibs, LAMBDA k : k.name = "ul")
        lis == SelectSeq(uls[1].kids, LAMBDA k : k.name = "li")
        link(li) == find_all(li, {"a"})
        urljoin(href) == IF Head(href) = "https://" THEN href ELSE url \o href
        linked == SelectSeq(lis, LAMBDA li :
                      link(li) # <<>> /\ link(li)[1].href # <<>>)
    IN  IF heads = <<>> \/ uls = <<>> THEN <<>>
        ELSE [i \in DOMAIN linked |->
                 <<urljoin(link(linked[i])[1].href), get_text_strip(link(linked[i])[1])>>]

RECURSIVE decompose_first(_, _)
\* e.find(name).decompose(): e without its first descendant of that name
decompose_first(e, name) ==
    LET hits == {i \in DOMAIN e.kids :
                    e.kids[i].name = name \/ find_all(e.kids[i], {name}) # <<>>}
        at == CHOOSE i \in hits : \A k \in hits : i <= k
    IN  IF hits = {} THEN e
        ELSE IF e.kids[at].name = name
        THEN [e EXCEPT !.kids = SubSeq(e.kids, 1, at - 1)
                                    \o SubSeq(e.kids, at + 1, Len(e.kids))]
        ELSE [e EXCEPT !.kids[at] = decompose_first(e.kids[at], name)]

\* parser.py 305-308 with the heading's children left as they are: only the
\* headings that are children of the container are renamed
demoteMutChildrenOnly(e) ==
    [e EXCEPT !.kids = [i \in DOMAIN e.kids |->
        IF e.kids[i].name \in {"h2", "h3", "h4", "h5"}
        THEN [e.kids[i] EXCEPT !.name = <<"h3", "h4", "h5", "h6">>[Level(e.kids[i].name) - 1]]
        ELSE e.kids[i]]]

RECURSIVE demote(_)
\* parser.py 305-308: every h2..h5 below e, taken from the list find_all
\* returned before the first renaming, is renamed one level down
demote(e) ==
    [e EXCEPT !.kids = [i \in DOMAIN e.kids |->
        LET k == demote(e.kids[i])
        IN  IF k.name \in {"h2", "h3", "h4", "h5"}
            THEN [k EXCEPT !.name = <<"h3", "h4", "h5", "h6">>[Level(k.name) - 1]]
            ELSE k]]

\* SEPParser.parse_appendix: the main container after the changes, and the
\* result
parse_appendix(appendix_soup) ==
    LET divs == SelectSeq(find_all(appendix_soup, {"div"}), LAMBDA dv :
                    dv.id \in {<<"main-text">>, <<"aueditable">>})
        byId(id) == SelectSeq(divs, LAMBDA dv : dv.id = id)
        main_text == IF byId(<<"main-text">>) # <<>> THEN byId(<<"main-text">>)[1]
                     ELSE divs[1]
    IN  IF divs = <<>> THEN <<>>
        ELSE convert_children(demote(decompose_first(main_text, "h2")).kids)

-----------------------------------------------------------------------------
(* cli.scrape_article from the parsed page on (cli.py 62-85) *)

\* the main-content children of the end-to-end scenario (spec section 8, 9)
ScenarioMain ==
    << Leaf("h2", <<"1", ".", " ", "Overview">>), Txt(<<NL>>),
       El("p", << Txt(<<"See", " ">>),
                  Anchor(<<"https://x">>, <<Txt(<<"x">>)>>),
                  Txt(<<".">>) >>) >>

\* the rest of the scenario page: the title, the notes div, the bibliography
ScenarioPage ==
    [head |-> <<Leaf("h1", <<"Test">>)>>,
     tail |-> << WithId(El("div", <<WithId(Leaf("p", <<"n">>),
                                           <<"note", "-", "1">>)>>),
                        <<"note", "s">>),
                 WithId(El("div", << Leaf("h2", <<"Bibliography">>),
                                     El("ul", <<Leaf("li", <<"B">>)>>) >>),
                        <<"bibliography">>) >>]

\* the main-content children of the pages scrape_article is run on
E2Mains ==
    { ScenarioMain,
      << Leaf("h2", <<"Overview">>), Leaf("p", <<"A">>) >>,
      << Leaf("h2", <<"Intro">>),
         El("p", << Txt(<<"A">>),
                    El("sup", <<Anchor(<<"#note", "-", "2">>, <<Txt(<<"2">>)>>)>>) >>),
         Leaf("h2", <<"Related Entries">>), Leaf("p", <<"B">>) >>,
      << Leaf("h2", <<"Intro">>), Leaf("p", <<"A">>),
         Leaf("h2", <<"Bibliography">>), El("ul", <<Leaf("li", <<"B">>)>>) >> }

\* what stands before and after the main-content container
E2Pages ==
    LET note(id, kids) == WithId(El("p", kids), id)
        backref == Anchor(<<"#ref", "-", "1", "0">>, <<Txt(<<"^">>)>>)
        notes ==
            { <<>>,
              <<ScenarioPage.tail[1]>>,
              << WithId(El("div",
                     << Leaf("h2", <<"Notes">>),
                        note(<<"note", "-", "1", "0">>, <<Txt(<<"t", " ">>), backref>>),
                        note(<<"note", "-", "2">>, <<Txt(<<"u", NL, NL, "v">>)>>) >>),
                     <<"note", "s">>) >>,
              << El("div", << Leaf("h3", <<"Notes">>),
                              WithId(Leaf("li", <<"w">>), <<"fn", "3">>) >>) >>,
              << WithId(El("div",
                     << note(<<"note", "-", "1">>,
                             <<Txt(<<"n", " ">>), Leaf("em", <<"e">>)>>) >>),
                     <<"note", "s">>) >> }
        bibs ==
            { <<>>,
              <<ScenarioPage.tail[2]>>,
              << WithId(El("div",
                     << Leaf("h2", <<"Bibliography">>),
                        El("ul", << El("li", <<Txt(<<"E", " ">>), Leaf("em", <<"t">>)>>),
                                    El("li", <<Txt(<<"F">>),
                                               El("ul", <<Leaf("li", <<"G">>)>>)>>) >>) >>),
                     <<"bibliography">>) >> }
    IN  [head : {<<>>, ScenarioPage.head,
                 ScenarioPage.head
                     \o <<WithId(El("div", <<Leaf("p", <<"P">>)>>), <<"preamble">>)>>},
         tail : {n \o b : n \in notes, b \in bibs}]

\* the parsed document
Soup ==
    El("[document]",
       e2_page.head
           \o (IF has_main THEN <<WithId(El("div", children), <<"main-text">>)>>
               ELSE <<>>)
           \o e2_page.tail)

E2Init(run) ==
    /\ e2_page \in (IF run THEN E2Pages ELSE {[head |-> <<>>, tail |-> <<>>]})
    /\ e2_locals = [appendices |-> <<>>, metadata |-> <<>>, content |-> <<>>,
                    footnotes |-> <<>>, bibliography |-> <<>>]
    /\ e2_result = <<>>
    /\ e2_pc = (IF run THEN "parse" ELSE "idle")

\* cli.py 63-64: SEPParser(soup, url, macros) builds its FootnoteConverter,
\* which extracts the definitions; an exception leaves scrape_article
E2Parse ==
    /\ e2_pc = "parse"
    /\ LET r == extract_definitions(Soup)
       IN  /\ fn_definitions' = r.definitions
           /\ e2_pc' = (IF r.raised THEN "raised" ELSE "appendices")
    /\ UNCHANGED <<e2_page, e2_locals, e2_result>>
    /\ UNCHANGED <<fn_order, fn_k, fn_lines, fn_result, fn_pc>>
    /\ UNCHANGED <<mcVars, mxVars, scVars, asVars, callVars, saVars, trVars, baVars>>

\* cli.py 67-76, for a page without appendix links: nothing is fetched
E2Appendices ==
    /\ e2_pc = "appendices"
    /\ get_appendix_links(Soup, <<"https://plato.stanford.edu/entries/t/">>) = <<>>
    /\ e2_locals' = [e2_locals EXCEPT !.appendices = <<>>]
    /\ e2_pc' = "metadata"
    /\ UNCHANGED <<e2_page, e2_result>>
    /\ UNCHANGED <<mcVars, mxVars, scVars, fnVars, asVars, callVars, saVars, trVars, baVars>>

\* cli.py 79
E2Metadata ==
    /\ e2_pc = "metadata"
    /\ e2_locals' = [e2_locals EXCEPT !.metadata =
           extract_metadata(Soup, <<"https://plato.stanford.edu/entries/t/">>)]
    /\ e2_pc' = "content"
    /\ UNCHANGED <<e2_page, e2_result>>
    /\ UNCHANGED <<mcVars, mxVars, scVars, fnVars, asVars, callVars, saVars, trVars, baVars>>

\* cli.py 80: the call of get_main_content
E2CallContent ==
    /\ e2_pc = "content"
    /\ mc_pc = "idle"
    /\ mc_pc' = "start"
    /\ e2_pc' = "content_ret"
    /\ UNCHANGED <<e2_page, e2_locals, e2_result>>
    /\ UNCHANGED <<has_main, children, idx, skip_until_next_h2, lines, line_src,
                   mc_result>>
    /\ UNCHANGED <<mxVars, scVars, fnVars, asVars, callVars, saVars, trVars, baVars>>

\* cli.py 80: its return
E2Content ==
    /\ e2_pc = "content_ret"
    /\ mc_pc = "done"
    /\ e2_locals' = [e2_locals EXCEPT !.content = mc_result]
    /\ e2_pc' = "footnotes"
    /\ UNCHANGED <<e2_page, e2_result>>
    /\ UNCHANGED <<mcVars, mxVars, scVars, fnVars, asVars, callVars, saVars, trVars, baVars>>

\* cli.py 81, parser.py 218-224: the call of format_definitions
E2CallFootnotes ==
    /\ e2_pc = "footnotes"
    /\ fn_pc = "idle"
    /\ fn_pc' = "start"
    /\ e2_pc' = "footnotes_ret"
    /\ UNCHANGED <<e2_page, e2_locals, e2_result>>
    /\ UNCHANGED <<fn_definitions, fn_order, fn_k, fn_lines, fn_result>>
    /\ UNCHANGED <<mcVars, mxVars, scVars, asVars, callVars, saVars, trVars, baVars>>

\* cli.py 81: its return
E2Footnotes ==
    /\ e2_pc = "footnotes_ret"
    /\ fn_pc = "done"
    /\ e2_locals' = [e2_locals EXCEPT !.footnotes = fn_result]
    /\ e2_pc' = "bibliography"
    /\ UNCHANGED <<e2_page, e2_result>>
    /\ UNCHANGED <<mcVars, mxVars, scVars, fnVars, asVars, callVars, saVars, trVars, baVars>>

\* cli.py 82
E2Bibliography ==
    /\ e2_pc = "bibliography"
    /\ e2_locals' = [e2_locals EXCEPT !.bibliography = get_bibliography(Soup)]
    /\ e2_pc' = "assemble"
    /\ UNCHANGED <<e2_page, e2_result>>
    /\ UNCHANGED <<mcVars, mxVars, scVars, fnVars, asVars, callVars, saVars, trVars, baVars>>

\* cli.py 85: the call of assemble_markdown, without a preamble argument
E2CallAssemble ==
    /\ e2_pc = "assemble"
    /\ as_pc = "idle"
    /\ as_args' = [metadata |-> e2_locals.metadata,
                   content |-> e2_locals.content,
                   footnotes |-> e2_locals.footnotes,
                   bibliography |-> e2_locals.bibliography,
                   appendices |-> e2_locals.appendices,
                   preamble |-> <<>>]
    /\ as_pc' = "frontmatter"
    /\ e2_pc' = "assemble_ret"
    /\ UNCHANGED <<e2_page, e2_locals, e2_result>>
    /\ UNCHANGED <<as_parts, as_result>>
    /\ UNCHANGED <<mcVars, mxVars, scVars, fnVars, callVars, saVars, trVars, baVars>>

\* cli.py 85: return
E2Return ==
    /\ e2_pc = "assemble_ret"
    /\ as_pc = "done"
    /\ e2_result' = as_result
    /\ e2_pc' = "done"
    /\ UNCHANGED <<e2_page, e2_locals>>
    /\ UNCHANGED <<mcVars, mxVars, scVars, fnVars, asVars, callVars, saVars, trVars, baVars>>

E2Next ==
    \/ E2Parse \/ E2Appendices \/ E2Metadata \/ E2CallContent \/ E2Content
    \/ E2CallFootnotes \/ E2Footnotes \/ E2Bibliography \/ E2CallAssemble
    \/ E2Return
    \/ McNext \/ FnNext \/ AsNext

\* C10: for the scenario page (title "Test", section "1. Overview" with the
\* paragraph See <a href="https://x">x</a>., one note, one bibliography
\* entry) the document returned starts with the frontmatter line
\* title: "Test" and holds "## Overview", the link [x](https://x), the
\* "## Notes" block with [^1]: and the "## Bibliography" block with its one
\* "-" entry, in this order.
C10_EndToEnd ==
    (e2_pc = "done" /\ has_main /\ children = ScenarioMain /\ e2_page = ScenarioPage) =>
        LET at(s) == Find(e2_result, s)
            overview == <<"##", " ", "Overview">>
            link == <<"[", "x", "]", "(", "https://x", ")">>
            notes == NotesHeading \o <<NL, NL, "[^", "1", "]:">>
            bib == <<"##", " ", "Bibliography", NL, NL, "-", " ">>
        IN  /\ StartsAt(e2_result, <<"---", NL, "title:", " ", "\"", "Test", "\"", NL>>, 1)
            /\ at(overview) # 0 /\ at(link) # 0 /\ at(notes) # 0 /\ at(bib) # 0
            /\ at(overview) < at(link)
            /\ at(link) < at(notes)
            /\ at(notes) < at(bib)
            /\ Cardinality({i \in DOMAIN e2_result : e2_result[i] = "-"}) = 1

-----------------------------------------------------------------------------
(* fetcher._parse_mathjax_macros *)

\* fetcher._parse_mathjax_macros on the content of local.js as a sequence of
\* tokens: one token per character, a word (\w+) being a run of tokens that
\* are none of the punctuation below.  The result is the dict in insertion
\* order.  Literals in single quotes do not occur in the contents of the model.
parse_mathjax_macros(js) ==
    LET NotWord == {"{", "}", "[", "]", ":", ",", "\"", "\\", " ", NL, "="}
        first(t, from) ==
            LET hits == {i \in from..Len(js) : js[i] = t}
            IN  IF hits = {} THEN 0 ELSE CHOOSE i \in hits : \A k \in hits : i <= k
        macros_start == first("Macros", 1)
        brace_start == IF macros_start = 0 THEN 0 ELSE first("{", macros_start)
        \* fetcher.py 59-67: the index after the last token looked at
        RECURSIVE Balance(_, _)
        Balance(pos, depth) ==
            IF pos > Len(js) \/ depth = 0 THEN pos
            ELSE Balance(pos + 1, IF js[pos] = "{" THEN depth + 1
                                  ELSE IF js[pos] = "}" THEN depth - 1
                                  ELSE depth)
        \* fetcher.py 69: js_content[brace_start + 1 : pos - 1]
        macros_section == SubSeq(js, brace_start + 1, Balance(brace_start + 1, 1) - 2)
        \* fetcher.py 71-104 on the section.  Every position a pattern
        \* reaches is handed on as an argument of the next operator.
        extract(sec) ==
            LET at(i) == IF i \in DOMAIN sec THEN sec[i] ELSE "<end>"
                RECURSIVE Ws(_)
                Ws(i) == IF IsSpace(at(i)) THEN Ws(i + 1) ELSE i
                RECURSIVE Word(_)
                Word(i) == IF i \in DOMAIN sec /\ sec[i] \notin NotWord
                           THEN Word(i + 1) ELSE i
                RECURSIVE DigitsEnd(_)
                DigitsEnd(i) == IF at(i) \in Digits THEN DigitsEnd(i + 1) ELSE i
                \* "((?:[^"\\]|\\.)*)": the index of the closing quote, 0 when none
                RECURSIVE Quote(_)
                Quote(i) ==
                    IF i > Len(sec) THEN 0
                    ELSE IF sec[i] = "\"" THEN i
                    ELSE IF sec[i] = "\\"
                         THEN (IF i + 1 > Len(sec) THEN 0 ELSE Quote(i + 2))
                    ELSE Quote(i + 1)
                \* the part the two patterns share: (\w+)\s*:\s* and, for the
                \* array format, \[\s*, up to the literal in double quotes
                colon(i) == Ws(Word(i))
                open(i) == Ws(colon(i) + 1)
                skip(isArray, o) == IF isArray THEN Ws(o + 1) ELSE o
                closing(quote) == IF at(quote) = "\"" THEN Quote(quote + 1) ELSE 0
                quoted(i, isArray, quote, close) ==
                    [ok |-> /\ Word(i) > i
                            /\ at(colon(i)) = ":"
                            /\ isArray => at(open(i)) = "["
                            /\ close # 0,
                     name |-> SubSeq(sec, i, Word(i) - 1),
                     value |-> SubSeq(sec, quote + 1, close - 1),
                     close |-> close]
                opened(i, isArray, quote) == quoted(i, isArray, quote, closing(quote))
                literal(i, isArray) == opened(i, isArray, skip(isArray, open(i)))
                \* fetcher.py 72-75: ... \s*(?:,|$) with re.MULTILINE
                simple_end(m, n) ==
                    [ok |-> m.ok /\ (\/ at(n) \in {",", "<end>"}
                                     \/ \E k \in (m.close + 1)..(n - 1) : sec[k] = NL),
                     name |-> m.name, value |-> m.value, num_args |-> <<>>,
                     next |-> IF at(n) = "," THEN n + 1 ELSE n]
                simple_of(m) == simple_end(m, Ws(m.close + 1))
                simple(i) == simple_of(literal(i, FALSE))
                \* fetcher.py 78-81: ... \s*(?:,\s*(\d+))?\s*\]
                array_end(m, n, d, e) ==
                    LET counted == m.ok /\ at(n) = "," /\ e > d /\ at(Ws(e)) = "]"
                    IN  [ok |-> m.ok /\ (counted \/ at(n) = "]"),
                         name |-> m.name, value |-> m.value,
                         num_args |-> IF counted THEN SubSeq(sec, d, e - 1) ELSE <<>>,
                         next |-> IF counted THEN Ws(e) + 1 ELSE n + 1]
                array_digits(m, n, d) == array_end(m, n, d, DigitsEnd(d))
                array_comma(m, n) == array_digits(m, n, Ws(n + 1))
                array_of(m) == array_comma(m, Ws(m.close + 1))
                array(i) == array_of(literal(i, TRUE))
                \* pattern.finditer(macros_section): left to right, without overlap
                RECURSIVE finditer(_, _)
                match(arr, i, m) ==
                    IF m.ok THEN <<m>> \o finditer(arr, IF m.next > i THEN m.next ELSE i + 1)
                    ELSE finditer(arr, i + 1)
                finditer(arr, i) ==
                    IF i > Len(sec) THEN <<>>
                    ELSE match(arr, i, IF arr THEN array(i) ELSE simple(i))
                \* decode_js_escapes
                RECURSIVE decode(_)
                decode(v) ==
                    IF v = <<>> THEN <<>>
                    ELSE IF Head(v) # "\\" THEN <<Head(v)>> \o decode(Tail(v))
                    ELSE IF Len(v) >= 2 /\ v[2] = "\\" THEN <<"\\">> \o decode(Tail(Tail(v)))
                    ELSE decode(Tail(v))
                \* fetcher.py 91-104: macros[name] = (decode_js_escapes(value), num_args)
                item(m) == Macro(m.name, decode(m.value),
                                 IF m.num_args = <<>> THEN 0 ELSE IntOf(m.num_args))
                put(d, m) ==
                    IF m.value = <<>> THEN d
                    ELSE IF \E k \in DOMAIN d : d[k].name = m.name
                    THEN [k \in DOMAIN d |-> IF d[k].name = m.name THEN item(m) ELSE d[k]]
                    ELSE Append(d, item(m))
                RECURSIVE assign(_)
                assign(ms) ==
                    IF ms = <<>> THEN <<>>
                    ELSE put(assign(SubSeq(ms, 1, Len(ms) - 1)), ms[Len(ms)])
            IN  assign(finditer(FALSE, 1) \o finditer(TRUE, 1))
    IN  IF macros_start = 0 \/ brace_start = 0 THEN <<>>
        ELSE extract(macros_section)

-----------------------------------------------------------------------------
(* converters/tables.py *)

\* the exception a read of a missing attribute raises, as a returned value
AttributeError == <<"<AttributeError>">>

\* TableConverter._convert_cell.  Its first statement reads
\* self._text_converter._convert_inline (tables.py 83); TextConverter defines
\* convert_inline only, so the read raises and lines 86-94 are never run.
convert_cell(cell) == AttributeError

\* tables.py 29-62: the row converted as the header (a sequence of at most
\* one row) and the rows converted as body rows, in order
table_rows(table) ==
    LET trs == find_all(table, {"tr"})
        thead == find_all(table, {"thead"})
        tbody == find_all(table, {"tbody"})
        withTh == SelectSeq(trs, LAMBDA tr : find_all(tr, {"th"}) # <<>>)
        first(s) == IF s = <<>> THEN <<>> ELSE <<s[1]>>
        \* header_row, as a sequence of at most one row
        header_row == IF thead # <<>> THEN first(find_all(thead[1], {"tr"}))
                      ELSE first(withTh)
        collected == IF tbody # <<>> THEN find_all(tbody[1], {"tr"})
                     ELSE SelectSeq(trs, LAMBDA tr : <<tr>> # header_row)
        promoted == header_row = <<>> /\ collected # <<>>
    IN  [head |-> IF promoted THEN <<collected[1]>> ELSE header_row,
         body_rows |-> IF promoted THEN Tail(collected) ELSE collected]

\* TableConverter.convert; an exception of a cell conversion leaves it
table_convert(table) ==
    LET head == table_rows(table).head
        body_rows == table_rows(table).body_rows
        cells(tr) == LET cs == find_all(tr, {"th", "td"})
                     IN  [i \in DOMAIN cs |-> convert_cell(cs[i])]
        line(cs) == <<"|", " ">> \o Join(cs, <<" ", "|", " ">>) \o <<" ", "|">>
        rule(cs) == <<"|">> \o Join([i \in DOMAIN cs |-> <<"---">>], <<"|">>)
                        \o <<"|">>
        rows == (IF head # <<>>
                 THEN <<line(cells(head[1])), rule(cells(head[1]))>> ELSE <<>>)
                \o [i \in DOMAIN SelectSeq(body_rows, LAMBDA tr : cells(tr) # <<>>) |->
                       line(cells(SelectSeq(body_rows,
                                            LAMBDA tr : cells(tr) # <<>>)[i]))]
        converted == Concat([i \in DOMAIN head |-> cells(head[i])])
                         \o Concat([i \in DOMAIN body_rows |-> cells(body_rows[i])])
    IN  IF \E i \in DOMAIN converted : converted[i] = AttributeError
        THEN AttributeError
        ELSE Join(rows, <<NL>>)

-----------------------------------------------------------------------------
(* One call of a function of the converters on one argument *)

MaxRows == 2

MaxCols == 2

MaxInline == 2

MaxEntries == 2

MaxBlocks == 3

MaxDefs == 2

\* the calls made: the operation and its argument
CallInputs ==
    LET name(c) == CASE c = 1 -> "A" [] c = 2 -> "B" [] OTHER -> ToString(c)
        hdr(k) == El("tr", [c \in 1..k |-> Leaf("th", <<name(c)>>)])
        row(i, k) == El("tr", [c \in 1..k |-> Leaf("td", <<ToString(10 * i + c)>>)])
        rows(n, k) == [i \in 1..n |-> row(i, k)]
        tables ==
            {El("table", <<>>), El("table", <<El("tbody", <<>>)>>)}
            \cup UNION {
                { El("table", <<El("thead", <<hdr(k)>>), El("tbody", rows(n, k))>>),
                  El("table", <<hdr(k)>> \o rows(n, k)),
                  El("table", <<El("tbody", <<hdr(k)>> \o rows(n, k))>>),
                  El("table", rows(n + 1, k)) }
                : k \in 1..MaxCols, n \in 0..MaxRows }
        \* inline content: anchors with and without a target, bare and nested
        pieces ==
            { Txt(<<"t">>), Txt(<<"s", " ">>),
              Anchor(<<"https://x.y/">>, <<Txt(<<"t">>)>>),
              Anchor(<<>>, <<Txt(<<"t">>)>>),
              Anchor(<<"#b">>, <<Leaf("em", <<"u">>)>>),
              El("em", <<Anchor(<<>>, <<Txt(<<"u">>)>>)>>),
              El("strong", <<Anchor(<<"#c">>, <<Txt(<<"v">>)>>)>>) }
        inlines == {El("p", k) : k \in UNION {[1..n -> pieces] : n \in 0..MaxInline}}
        \* contents of local.js: with and without the keyword, the opening
        \* brace and the closing braces, around up to MaxEntries declarations
        entry == { <<"R", ":", " ", "\"", "\\", "\\", "b", "{", "R", "}", "\"">>,
                   <<"N", ":", " ", "[", "\"", "x", "#", "1", "\"", ",", " ", "1", "]">>,
                   <<"R", ":", " ", "\"", "y", "\"">> }
        entries == UNION {{Join(es, <<",", NL>>) : es \in [1..n -> entry]} : n \in 0..MaxEntries}
        scripts == {h \o o \o e \o t :
                       h \in {<<>>, <<"Macros">>, <<"Macros", ":", " ">>,
                              <<"tex", ":", " ", "{", "Macros", ":", " ">>},
                       o \in {<<>>, <<"{", " ">>},
                       e \in entries,
                       t \in {<<>>, <<",">>, <<" ">>, <<NL>>, <<" ", "}">>,
                              <<" ", "}", " ", "}">>}}
        \* appendix pages: no container, or a container of up to MaxBlocks of
        \* headings of every level, a paragraph, a container with a heading
        blocks == {Leaf("h2", <<"T">>), Leaf("h2", <<"U">>), Leaf("h3", <<"V">>),
                   Leaf("h4", <<"W">>), Leaf("h5", <<"X">>), Leaf("h6", <<"Y">>),
                   Leaf("p", <<"q">>),
                   El("div", <<Leaf("h2", <<"N">>), Leaf("p", <<"r">>)>>)}
        pages == {El("[document]", <<El("div", <<Leaf("h2", <<"T">>)>>)>>)}
                 \cup {El("[document]", <<WithId(El("div", k), id)>>) :
                           k \in UNION {[1..n -> blocks] : n \in 0..MaxBlocks},
                           id \in {<<"main-text">>, <<"aueditable">>}}
        \* superscripts: without anchor, and around anchors whose href and
        \* text hold a digit run or none
        hrefs == {<<>>, <<"#note", "-", "1", "0">>, <<"#n">>, <<"n", "2", "0", ".html", "#", "3">>}
        texts == {<<"2">>, <<"x">>, <<" ", "[", "4", "5", "]">>, <<>>}
        sups == {El("sup", <<Txt(<<"x">>)>>), El("sup", <<Txt(<<" ", "7", " ">>)>>),
                 El("sup", <<>>)}
                \cup {El("sup", pre \o <<Anchor(h, <<Txt(t)>>)>> \o post) :
                          h \in hrefs, t \in texts,
                          pre \in {<<>>, <<Txt(<<"[", " ">>)>>},
                          post \in {<<>>, <<Anchor(<<"#note", "-", "9">>, <<Txt(<<"9">>)>>)>>}}
        \* notes containers of up to MaxDefs paragraphs and list items: ids
        \* with and without "note"/"fn" and digits, bodies of text, with a
        \* back-reference by href or by text, with an element
        ids == {<<"note", "-", "1">>, <<"fn", "2", "0">>, <<"n", "3">>,
                <<"note", "-", "x">>, <<"note", "4", "-", "5">>}
        bodies == {<<Txt(<<"t">>)>>,
                   <<Txt(<<"t", " ">>), Anchor(<<"#ref", "-", "1">>, <<Txt(<<"b">>)>>)>>,
                   <<Anchor(<<"#top">>, <<Txt(<<"^">>)>>), Txt(<<" ", "u">>)>>,
                   <<Txt(<<"v", " ">>), Leaf("em", <<"w">>)>>}
        notes == {WithId(El("p", b), id) : id \in ids, b \in bodies}
                 \cup {WithId(El("li", b), <<"note", "-", "1">>) : b \in bodies}
        containers == {El("[document]", <<WithId(El("div", k), <<"note", "s">>)>>) :
                          k \in UNION {[1..n -> notes] : n \in 0..MaxDefs}}
        \* articles: what precedes the heading, the heading (matching, with
        \* numbering, not matching, of level 4), what follows it, the next
        \* blocks, and the container it all sits in
        item(t) == El("ul", <<Leaf("li", <<t>>)>>)
        heading == {Leaf("h2", <<"Bibliography">>), Leaf("h3", <<"References">>),
                    Leaf("h2", <<"7", ".", " ", "Bibliography">>),
                    Leaf("h2", <<"Notes">>), Leaf("h4", <<"Bibliography">>)}
        follow == {<<>>, <<item("E")>>, <<Leaf("p", <<"x">>), Txt(<<" ">>), item("E")>>,
                   <<Leaf("h4", <<"Primary">>), item("E")>>}
        next == {<<>>, <<Leaf("h2", <<"More">>), Leaf("p", <<"z">>)>>,
                 <<Leaf("h3", <<"Sub">>), item("Z")>>,
                 <<Leaf("h2", <<"References">>), item("Y")>>}
        sections == {pre \o <<h>> \o f \o n :
                        pre \in {<<>>, <<Leaf("h2", <<"Intro">>), Leaf("p", <<"a">>)>>},
                        h \in heading, f \in follow, n \in next}
        articles ==
            {El("[document]", <<WithId(El("div", k), id)>>) :
                 k \in sections, id \in {<<"main-text">>, <<"aueditable">>}}
            \cup {El("[document]", <<WithId(El("div", <<El("div", k)>>), <<"main-text">>)>>) :
                      k \in sections}
            \cup {El("[document]", <<WithId(El("div", <<Leaf("p", <<"a">>)>>), <<"main-text">>),
                                     WithId(El("div", k), <<"bibliography">>)>>) :
                      k \in sections}
            \cup {El("[document]", <<El("section", k)>>) : k \in sections}
        \* bibliography lists of up to MaxEntries items: an item alone, with
        \* one nested list, with two nested lists, with a list nested twice
        li(t, lists) == El("li", <<Txt(<<t>>)>> \o lists)
        sub(t, lists) == El("ul", <<li(t, lists)>>)
        bibitems == {li("A", <<>>), li("A", <<sub("B", <<>>)>>),
                     li("A", <<sub("B", <<>>), sub("C", <<>>)>>),
                     li("A", <<sub("B", <<sub("D", <<>>)>>)>>)}
        biblists == {El("ul", k) : k \in UNION {[1..n -> bibitems] : n \in 1..MaxEntries}}
    IN  [op : {"TableConverter.convert"}, arg : tables]
        \cup [op : {"BibliographyConverter._convert_list"}, arg : biblists]
        \cup [op : {"SEPParser.get_bibliography"}, arg : articles]
        \cup [op : {"FootnoteConverter._extract_definitions"}, arg : containers]
        \cup [op : {"FootnoteConverter.convert_reference"}, arg : sups]
        \cup [op : {"SEPParser.parse_appendix"}, arg : pages]
        \cup [op : {"_parse_mathjax_macros"}, arg : scripts]
        \cup [op : {"TextConverter.convert_inline"}, arg : inlines]

CallInit(run) ==
    /\ call \in (IF run THEN CallInputs ELSE {[op |-> "", arg |-> <<>>]})
    /\ call_ret = <<>>
    /\ call_pc = (IF run THEN "call" ELSE "idle")

\* the value the operation returns on the argument
Apply(op, arg) ==
    CASE op = "TableConverter.convert" -> table_convert(arg)
      [] op = "FootnoteConverter.convert_reference" -> convert_reference(arg)
      [] op = "BibliographyConverter._convert_list" -> bib_convert_list(arg, 0)
      [] op = "SEPParser.get_bibliography" -> get_bibliography(arg)
      [] op = "FootnoteConverter._extract_definitions" ->
             IF extract_definitions(arg).raised THEN AttributeError
             ELSE extract_definitions(arg).definitions
      [] op = "SEPParser.parse_appendix" -> parse_appendix(arg)
      [] op = "_parse_mathjax_macros" -> parse_mathjax_macros(arg)
      [] op = "TextConverter.convert_inline" -> convert_inline(arg)

\* the call and its return
Call ==
    /\ call_pc = "call"
    /\ call_ret' = Apply(call.op, call.arg)
    /\ call_pc' = "done"
    /\ UNCHANGED call
    /\ UNCHANGED <<mcVars, mxVars, scVars, fnVars, asVars, e2Vars, saVars, trVars, baVars>>

\* a table row rendered from the texts of its cells
RowLine(tr) ==
    LET cs == find_all(tr, {"th", "td"})
    IN  <<"|", " ">> \o Join([i \in DOMAIN cs |-> get_text_strip(cs[i])],
                             <<" ", "|", " ">>) \o <<" ", "|">>

\* C11: TableConverter.convert on a table whose first row is its one header
\* row, of k cells, followed by n data rows, returns n+2 lines: the header
\* row, a rule of k "---" cells, and the data rows in source order; on a
\* table without rows it returns the empty string.
C11_TableShape ==
    (call_pc = "done" /\ call.op = "TableConverter.convert") =>
        LET trs == find_all(call.arg, {"tr"})
            out == Split(call_ret, <<NL>>)
            k == Len(find_all(trs[1], {"th", "td"}))
        IN  IF trs = <<>> THEN call_ret = <<>>
            ELSE (/\ find_all(trs[1], {"th"}) # <<>>
                  /\ find_all(call.arg, {"thead"}) # <<>>
                         \/ find_all(call.arg, {"tbody"}) = <<>>) =>
                     /\ call_ret # AttributeError
                     /\ Len(out) = Len(trs) + 1
                     /\ out[1] = RowLine(trs[1])
                     /\ out[2] = <<"|">> \o Join([i \in 1..k |-> <<"---">>], <<"|">>)
                                     \o <<"|">>
                     /\ \A i \in 2..Len(trs) : out[i + 1] = RowLine(trs[i])

\* the anchors of an element, at any depth
Anchors(e) == find_all(e, {"a"})

\* C12: convert_inline renders an anchor with a non-empty href h and text t
\* as [t](h) and an anchor with an empty or absent href as the bare t; no
\* output holds a link with an empty target, and none holds a bracket when
\* no anchor has a target.
C12_LinkEmission ==
    (call_pc = "done" /\ call.op = "TextConverter.convert_inline") =>
        LET e == call.arg
        IN  /\ \A h \in {<<>>, <<"https://x.y/">>} :
                   e.kids = <<Anchor(h, <<Txt(<<"t">>)>>)>> =>
                       call_ret = (IF h = <<>> THEN <<"t">>
                                   ELSE <<"[", "t", "]", "(">> \o h \o <<")">>)
            /\ ~Contains(call_ret, <<"(", ")">>)
            /\ Cardinality({i \in DOMAIN call_ret : call_ret[i] = "["})
                   = Cardinality({i \in DOMAIN Anchors(e) : Anchors(e)[i].href # <<>>})

\* an anchor without a target beside one with a target
C12_Witness ==
    /\ call_pc = "done"
    /\ call.op = "TextConverter.convert_inline"
    /\ call.arg.kids = <<Anchor(<<>>, <<Txt(<<"t">>)>>),
                         Anchor(<<"https://x.y/">>, <<Txt(<<"t">>)>>)>>
    /\ call_ret = <<"t", "[", "t", "]", "(", "https://x.y/", ")">>

\* the headings of the page with one of the names, by their lowered text
HeadingTexts(names) ==
    LET hs == find_all(Soup, names)
    IN  {LET t == get_text_strip(hs[i]) IN [k \in DOMAIN t |-> Lower(t[k])] :
             i \in DOMAIN hs}

\* C13: missing structure is never fatal.  On a page without main-content
\* container, preamble container, notes container, bibliography or references
\* heading, or "Appendices" heading, the respective operation returns the empty
\* string (get_appendix_links the empty list), nothing raises, and the returned
\* document omits the section.
C13_MissingStructure ==
    LET divIds == {find_all(Soup, {"div"})[i].id : i \in DOMAIN find_all(Soup, {"div"})}
        noNotes == /\ \A id \in divIds : ~Contains(id, <<"note">>)
                   /\ HeadingTexts({"h2", "h3", "h4"}) \cap {<<"note">>, <<"notes">>} = {}
        noBib == HeadingTexts({"h2", "h3"}) \cap {<<"bibliography">>, <<"references">>} = {}
        url == <<"https://plato.stanford.edu/entries/t/">>
    IN  /\ (noNotes => e2_pc # "raised")
        /\ (<<"preamble">> \notin divIds => get_preamble(Soup) = <<>>)
        /\ (<<"appendices">> \notin HeadingTexts({"h2"})
                => get_appendix_links(Soup, url) = <<>>)
        /\ e2_pc = "done" =>
               /\ ~has_main => e2_locals.content = <<>>
               /\ noNotes => /\ e2_locals.footnotes = <<>>
                             /\ ~Contains(e2_result, NotesHeading)
               /\ noBib => /\ e2_locals.bibliography = <<>>
                           /\ ~Contains(e2_result, <<"##", " ", "Bibliography">>)
               /\ ~Contains(e2_result, <<"##", " ", "Appendix">>)
               /\ (~has_main /\ noNotes /\ noBib) =>
                      e2_result = format_frontmatter(e2_locals.metadata)

\* C26: when the page has a preamble container whose conversion is not
\* empty, the document scrape_article returns holds that preamble, after the
\* frontmatter and before the main content.
C26_PreambleInDocument ==
    (e2_pc = "done" /\ get_preamble(Soup) # <<>>) =>
        LET front == format_frontmatter(e2_locals.metadata)
            rest == SubSeq(e2_result, Len(front) + 1, Len(e2_result))
        IN  /\ StartsAt(e2_result, front, 1)
            /\ StartsAt(rest, <<NL, NL>> \o get_preamble(Soup), 1)
            /\ e2_locals.content # <<>> =>
                   Find(rest, e2_locals.content) > Len(get_preamble(Soup)) + 2

\* the page with nothing but its title has been scraped
C13_Witness ==
    /\ e2_pc = "done"
    /\ ~has_main
    /\ e2_page = [head |-> ScenarioPage.head, tail |-> <<>>]
    /\ e2_result = format_frontmatter(extract_metadata(Soup,
                       <<"https://plato.stanford.edu/entries/t/">>))

\* the content holds the keyword, and after it no opening brace or an
\* opening brace that no closing brace matches
MalformedBlock(js) ==
    LET count(t, a, b) == Cardinality({i \in a..b : js[i] = t})
    IN  \E m \in DOMAIN js :
            /\ js[m] = "Macros"
            /\ count("Macros", 1, m - 1) = 0
            /\ \/ count("{", m, Len(js)) = 0
               \/ \E b \in m..Len(js) :
                      /\ js[b] = "{"
                      /\ count("{", m, b - 1) = 0
                      /\ \A q \in b..Len(js) : count("{", b, q) > count("}", b, q)

\* C14: parsing a malformed macro block (keyword present, opening brace
\* missing or never closed) returns the empty macro table.
C14_MalformedBlockEmpty ==
    (call_pc = "done" /\ call.op = "_parse_mathjax_macros" /\ MalformedBlock(call.arg))
        => call_ret = <<>>

-----------------------------------------------------------------------------
(* cli.main, cli.scrape_article and the fetch layer as awaits *)

validate_sep_urlMutNoPath(url) ==
    LET based == url # <<>> /\ Head(url) \in {"https://", "http://"}
    IN  IF ~based \/ Len(url) < 2
           \/ url[2] \notin {"plato.stanford.edu", "seop.illc.uva.nl"}
        THEN <<"<ValueError>", "Not a SEP URL">>
        ELSE url

\* fetcher.validate_sep_url on a url as tokens: the scheme with "//", the
\* tokens of the authority (urlparse().netloc, a port being a token of its
\* own), the path from its first token on.  A url without "//" has the empty
\* netloc.
validate_sep_url(url) ==
    LET PathHeads == {"/entries/", "/entries", "/about.html", "/"}
        based == url # <<>> /\ Head(url) \in {"https://", "http://"}
        rest == IF based THEN Tail(url) ELSE <<>>
        cut == {i \in DOMAIN rest : rest[i] \in PathHeads}
        at == IF cut = {} THEN Len(rest) + 1
              ELSE CHOOSE i \in cut : \A k \in cut : i <= k
        netloc == SubSeq(rest, 1, at - 1)
        path == IF based THEN SubSeq(rest, at, Len(rest)) ELSE url
    IN  IF netloc \notin {<<"plato.stanford.edu">>, <<"seop.illc.uva.nl">>}
        THEN <<"<ValueError>", "Not a SEP URL">>
        ELSE IF ~StartsAt(path, <<"/entries/">>, 1)
        THEN <<"<ValueError>", "Not an article URL">>
        ELSE url

\* the (title, html) pairs fetch_appendices returns: the links whose fetch
\* succeeded, in the order of the links
GatheredMutCompletionOrder(links, status, order) ==
    LET ok == SelectSeq(order, LAMBDA i : status[i] = "ok")
    IN  [k \in DOMAIN ok |-> <<links[ok[k]], <<"html", links[ok[k]]>>>>]

Gathered(links, status, order) ==
    LET ok == SelectSeq([i \in DOMAIN links |-> i], LAMBDA i : status[i] = "ok")
    IN  [k \in DOMAIN ok |-> <<links[ok[k]], <<"html", links[ok[k]]>>>>]

\* cli.py 57-60: the await of asyncio.gather returns its results when both
\* awaitables have returned
gather_doneMutFirstResult(fetch) == fetch.article = "ok"

gather_done(fetch) ==
    /\ fetch.article = "ok"
    /\ fetch.macros \in {"ok", "empty"}

MaxLinks == 3

SaInit(run) ==
    LET urls == { <<"https://", "plato.stanford.edu", "/entries/", "t", "/">>,
                  <<"https://", "plato.stanford.edu", "/entries/", "t">>,
                  <<"https://", "seop.illc.uva.nl", "/entries/", "t", "/">>,
                  <<"https://", "example.com", "/entries/", "t", "/">>,
                  <<"https://", "plato.stanford.edu", "/about.html">>,
                  <<"https://", "plato.stanford.edu", "/entries">>,
                  <<"https://", "plato.stanford.edu", ":443", "/entries/", "t", "/">>,
                  <<"plato.stanford.edu", "/entries/", "t", "/">> }
    IN  /\ sa_entry \in (IF run THEN {"main", "scrape_article"} ELSE {""})
        /\ sa_url \in (IF run THEN urls ELSE {<<>>})
        /\ sa_pc = (IF ~run THEN "idle" ELSE IF sa_entry = "main" THEN "main" ELSE "validate")
        /\ sa_fetch = [article |-> "none", macros |-> "none"]
        /\ sa_links = <<>>
        /\ sa_app = <<>>
        /\ sa_order = <<>>
        /\ sa_pages = <<>>
        /\ sa_log = <<>>
        /\ sa_out = ""

\* cli.py 120-130: main validates the url, reports and exits, or runs
\* scrape_article
MainValidate ==
    /\ sa_pc = "main"
    /\ IF validate_sep_url(sa_url) = sa_url
       THEN sa_pc' = "validate" /\ UNCHANGED <<sa_log, sa_out>>
       ELSE /\ sa_pc' = "exited"
            /\ sa_log' = Append(sa_log, "report")
            /\ sa_out' = "exit 1"
    /\ UNCHANGED <<sa_entry, sa_url, sa_fetch, sa_links, sa_app, sa_order, sa_pages>>
    /\ UNCHANGED <<mcVars, mxVars, scVars, fnVars, asVars, e2Vars, callVars, trVars, baVars>>

\* cli.py 54: the first statement of scrape_article
SaValidate ==
    /\ sa_pc = "validate"
    /\ IF validate_sep_url(sa_url) = sa_url
       THEN sa_pc' = "gather" /\ UNCHANGED sa_out
       ELSE sa_pc' = "raised" /\ sa_out' = "ValueError"
    /\ UNCHANGED <<sa_entry, sa_url, sa_fetch, sa_links, sa_app, sa_order,
                   sa_pages, sa_log>>
    /\ UNCHANGED <<mcVars, mxVars, scVars, fnVars, asVars, e2Vars, callVars, trVars, baVars>>

\* cli.py 57-60: asyncio.gather starts fetch_article and fetch_mathjax_macros;
\* each runs to its request (fetcher.py 144-148, 24-30)
SaGather ==
    /\ sa_pc = "gather"
    /\ sa_fetch' = [article |-> "pending", macros |-> "pending"]
    /\ sa_log' = sa_log \o <<"GET article", "GET local.js">>
    /\ sa_pc' = "gathering"
    /\ UNCHANGED <<sa_entry, sa_url, sa_links, sa_app, sa_order, sa_pages, sa_out>>
    /\ UNCHANGED <<mcVars, mxVars, scVars, fnVars, asVars, e2Vars, callVars, trVars, baVars>>

\* fetcher.py 148-157, 30-36: a response or a failure arrives.  fetch_article
\* raises ScraperError on a failure; fetch_mathjax_macros returns {} instead
FetchDone ==
    /\ sa_pc = "gathering"
    /\ \E f \in {"article", "macros"}, r \in {"ok", "failed"} :
           /\ sa_fetch[f] = "pending"
           /\ sa_fetch' = [sa_fetch EXCEPT ![f] = IF f = "macros" /\ r = "failed"
                                                   THEN "empty" ELSE r]
    /\ UNCHANGED <<sa_entry, sa_url, sa_pc, sa_links, sa_app, sa_order, sa_pages,
                   sa_log, sa_out>>
    /\ UNCHANGED <<mcVars, mxVars, scVars, fnVars, asVars, e2Vars, callVars, trVars, baVars>>

\* cli.py 57: the await of gather ends with the first exception or when both
\* results are there
SaGathered ==
    /\ sa_pc = "gathering"
    /\ \/ /\ sa_fetch.article = "failed"
          /\ sa_pc' = "raised"
          /\ sa_out' = "ScraperError"
          /\ UNCHANGED <<sa_links, sa_app, sa_log>>
       \/ /\ gather_done(sa_fetch)
          \* cli.py 63-68: parse, get_appendix_links, fetch_appendices starts
          /\ \E n \in 0..MaxLinks :
                 /\ sa_links' = SubSeq(<<"A", "B", "C", "D">>, 1, n)
                 /\ sa_app' = [i \in 1..n |-> "pending"]
                 /\ sa_log' = Append(sa_log, "parse") \o [i \in 1..n |-> "GET appendix"]
          /\ sa_pc' = "fetch_appendices"
          /\ UNCHANGED sa_out
    /\ UNCHANGED <<sa_entry, sa_url, sa_fetch, sa_order, sa_pages>>
    /\ UNCHANGED <<mcVars, mxVars, scVars, fnVars, asVars, e2Vars, callVars, trVars, baVars>>

\* fetch_appendices: one of its fetches succeeds or fails
FaFetch ==
    /\ sa_pc = "fetch_appendices"
    /\ \E i \in DOMAIN sa_app, r \in {"ok", "failed"} :
           /\ sa_app[i] = "pending"
           /\ sa_app' = [sa_app EXCEPT ![i] = r]
           /\ sa_order' = Append(sa_order, i)
    /\ UNCHANGED <<sa_entry, sa_url, sa_pc, sa_fetch, sa_links, sa_pages, sa_log, sa_out>>
    /\ UNCHANGED <<mcVars, mxVars, scVars, fnVars, asVars, e2Vars, callVars, trVars, baVars>>

\* fetch_appendices returns when every fetch has ended
FaReturn ==
    /\ sa_pc = "fetch_appendices"
    /\ \A i \in DOMAIN sa_app : sa_app[i] # "pending"
    /\ sa_pages' = Gathered(sa_links, sa_app, sa_order)
    /\ sa_pc' = "appendices"
    /\ UNCHANGED <<sa_entry, sa_url, sa_fetch, sa_links, sa_app, sa_order, sa_log, sa_out>>
    /\ UNCHANGED <<mcVars, mxVars, scVars, fnVars, asVars, e2Vars, callVars, trVars, baVars>>

\* cli.py 70-85: no await from here on: the appendices are parsed, the
\* components extracted, the document assembled and returned
SaFinish ==
    /\ sa_pc = "appendices"
    /\ sa_log' = sa_log \o [i \in DOMAIN sa_pages |-> "parse_appendix"]
                        \o <<"convert", "assemble">>
    /\ sa_out' = "document"
    /\ sa_pc' = "returned"
    /\ UNCHANGED <<sa_entry, sa_url, sa_fetch, sa_links, sa_app, sa_order, sa_pages>>
    /\ UNCHANGED <<mcVars, mxVars, scVars, fnVars, asVars, e2Vars, callVars, trVars, baVars>>

\* cli.py 127-152: main writes the document, or reports the exception and exits
MainFinish ==
    /\ sa_entry = "main"
    /\ sa_pc \in {"returned", "raised"}
    /\ IF sa_pc = "returned"
       THEN sa_out' = "written" /\ sa_log' = Append(sa_log, "write")
       ELSE sa_out' = "exit 1" /\ sa_log' = Append(sa_log, "report")
    /\ sa_pc' = "exited"
    /\ UNCHANGED <<sa_entry, sa_url, sa_fetch, sa_links, sa_app, sa_order, sa_pages>>
    /\ UNCHANGED <<mcVars, mxVars, scVars, fnVars, asVars, e2Vars, callVars, trVars, baVars>>

SaNext ==
    \/ MainValidate \/ SaValidate \/ SaGather \/ FetchDone \/ SaGathered
    \/ FaFetch \/ FaReturn \/ SaFinish \/ MainFinish

\* the authority of a url without its port, and its path
UrlHost(url) ==
    IF url # <<>> /\ Head(url) \in {"https://", "http://"} /\ Len(url) >= 2
    THEN url[2] ELSE ""

UrlPath(url) ==
    IF UrlHost(url) = "" THEN url
    ELSE SubSeq(url, IF url[3] = ":443" THEN 4 ELSE 3, Len(url))

\* a url is rejected: nothing was requested or parsed, and the caller has the
\* report (ValueError from scrape_article, the message and exit status 1 from
\* main) once the call has ended
RejectedEarly ==
    /\ \A i \in DOMAIN sa_log : sa_log[i] = "report"
    /\ sa_fetch = [article |-> "none", macros |-> "none"]
    /\ sa_pc \in {"main", "validate", "raised", "exited"}
    /\ sa_pc = "raised" => sa_out = "ValueError"
    /\ sa_pc = "exited" => sa_out = "exit 1" /\ sa_log = <<"report">>

\* C15 as stated: validate_sep_url returns the url unchanged when its host is
\* an accepted domain and its path begins with /entries/, and raises ValueError
\* otherwise; a rejected url is reported before any fetch or parse.
C15_HostAccepted ==
    LET accepted == /\ UrlHost(sa_url) \in {"plato.stanford.edu", "seop.illc.uva.nl"}
                    /\ StartsAt(UrlPath(sa_url), <<"/entries/">>, 1)
    IN  sa_pc # "idle" =>
            /\ accepted <=> validate_sep_url(sa_url) = sa_url
            /\ ~accepted => RejectedEarly

\* C15 (amended): validate_sep_url returns the url unchanged when its whole
\* authority (host with any port) is literally an accepted domain and its path
\* begins with /entries/, and raises ValueError otherwise; in scrape_article and
\* in main a rejected url is reported before any fetch or parse.
C15_AuthorityAccepted ==
    LET accepted == /\ UrlHost(sa_url) \in {"plato.stanford.edu", "seop.illc.uva.nl"}
                    /\ UrlPath(sa_url) = SubSeq(sa_url, 3, Len(sa_url))
                    /\ StartsAt(UrlPath(sa_url), <<"/entries/">>, 1)
    IN  sa_pc # "idle" =>
            /\ accepted <=> validate_sep_url(sa_url) = sa_url
            /\ ~accepted => /\ Head(validate_sep_url(sa_url)) = "<ValueError>"
                            /\ RejectedEarly

\* main has reported a url of another domain and exited
C15_Witness ==
    /\ sa_entry = "main"
    /\ sa_url = <<"https://", "example.com", "/entries/", "t", "/">>
    /\ sa_pc = "exited"
    /\ sa_out = "exit 1"
    /\ sa_log = <<"report">>

\* C16: fetch_appendices returns the (title, html) pairs of the fetches that
\* succeeded, in the order of the input links; a failed fetch is omitted
\* without raising and without holding back the others; no links, no pairs.
C16_SuccessesInOrder ==
    /\ sa_pc = "raised" => sa_app = <<>>
    /\ sa_pc \in {"appendices", "returned", "exited"} /\ sa_fetch.article = "ok" =>
           LET at(k) == CHOOSE i \in DOMAIN sa_links : sa_links[i] = sa_pages[k][1]
           IN  /\ \A k \in DOMAIN sa_pages :
                      /\ \E i \in DOMAIN sa_links : sa_links[i] = sa_pages[k][1]
                      /\ sa_app[at(k)] = "ok"
                      /\ sa_pages[k][2] = <<"html", sa_links[at(k)]>>
               /\ \A k, l \in DOMAIN sa_pages : k < l => at(k) < at(l)
               /\ Len(sa_pages) = Cardinality({i \in DOMAIN sa_app : sa_app[i] = "ok"})
               /\ sa_links = <<>> => sa_pages = <<>>

\* the positions of an entry in the log
LogAt(what) == {i \in DOMAIN sa_log : sa_log[i] = what}

\* C22: in scrape_article the requests for the page and for the macro file
\* are issued together, and the page is parsed only when both fetches have
\* ended; the appendix pages are parsed only when every appendix fetch has
\* ended; the conversion follows the parsing and the assembly comes last;
\* when the fetch of the page fails nothing is parsed, no document is
\* returned, and the caller gets the failure.
C22_FetchThenParse ==
    /\ \A i \in LogAt("GET local.js") :
           /\ i = 2 /\ sa_log[1] = "GET article"
           /\ LogAt("GET article") = {1}
    /\ LogAt("parse") # {} =>
           /\ LogAt("parse") = {3}
           /\ sa_fetch.article = "ok"
           /\ sa_fetch.macros \in {"ok", "empty"}
    /\ \A i \in LogAt("GET appendix") : 3 < i
    /\ \A i \in LogAt("parse_appendix") :
           /\ \A k \in DOMAIN sa_app : sa_app[k] # "pending"
           /\ \A k \in LogAt("GET appendix") \cup LogAt("parse") : k < i
    /\ \A i \in LogAt("convert") :
           /\ \A k \in LogAt("parse_appendix") \cup LogAt("parse") : k < i
           /\ sa_log[i + 1] = "assemble"
    /\ \A i \in LogAt("assemble") :
           /\ sa_log[i - 1] = "convert"
           /\ \A k \in (i + 1)..Len(sa_log) : sa_log[k] = "write"
    /\ sa_out \in {"document", "written"} => LogAt("assemble") # {}
    /\ sa_fetch.article = "failed" =>
           /\ LogAt("parse") \cup LogAt("convert") \cup LogAt("assemble") = {}
           /\ sa_out \notin {"document", "written"}
           /\ sa_pc = "raised" => sa_out = "ScraperError"
           /\ sa_pc = "exited" => sa_out = "exit 1"
           /\ sa_pc \in {"gathering", "raised", "exited"}

\* the macro file arrived before the page, two appendix pages were fetched
\* and parsed, and the document is returned
C22_Witness ==
    /\ sa_pc = "returned"
    /\ sa_out = "document"
    /\ sa_fetch = [article |-> "ok", macros |-> "empty"]
    /\ Len(sa_pages) = 2
    /\ Cardinality(LogAt("parse_appendix")) = 2

\* three links; the second fetch failed, the third completed first
C16_Witness ==
    /\ sa_pc = "appendices"
    /\ sa_links = <<"A", "B", "C">>
    /\ sa_app = <<"ok", "failed", "ok">>
    /\ sa_order = <<3, 1, 2>>
    /\ sa_pages = << <<"A", <<"html", "A">>>>, <<"C", <<"html", "C">>>> >>

\* C17: parse_appendix drops the first h2 of the appendix's main container,
\* renders every other heading of level L in 2..5 at level L + 1 (once), keeps
\* h6 at level 6, and converts the other children as the main content is; a
\* page without main container gives the empty string.
C17_DemotedOnce ==
    (call_pc = "done" /\ call.op = "SEPParser.parse_appendix") =>
        LET main == call.arg.kids[1]
            blocks == find_all(main, HeadingNames \cup {"p"})
            h2s == {i \in DOMAIN blocks : blocks[i].name = "h2"}
            kept == SelectSeq([i \in DOMAIN blocks |-> i],
                              LAMBDA i : i \notin h2s \/ \E k \in h2s : k < i)
            shown(b) == IF b.name = "p" THEN get_text_strip(b)
                        ELSE <<Hashes(IF Level(b.name) = 6 THEN 6 ELSE Level(b.name) + 1)>>
                                 \o get_text_strip(b)
        IN  IF main.id = <<>> THEN call_ret = <<>>
            ELSE SelectSeq(call_ret, LAMBDA t : ~IsSpace(t))
                     = Concat([k \in DOMAIN kept |-> shown(blocks[kept[k]])])

\* the title h2 is followed by a nested h2 and an h5
C17_Witness ==
    /\ call_pc = "done"
    /\ call.op = "SEPParser.parse_appendix"
    /\ call.arg.kids[1].kids = << Leaf("h2", <<"T">>),
                                  El("div", <<Leaf("h2", <<"N">>), Leaf("p", <<"r">>)>>),
                                  Leaf("h5", <<"X">>) >>
    /\ call_ret = <<"###", " ", "N", NL, NL, "r", NL, NL, "######", " ", "X">>

\* the first maximal run of digits of a string, <<>> when it has no digit
DigitRun(s) ==
    LET ds == {i \in DOMAIN s : s[i] \in Digits}
        a == CHOOSE i \in ds : \A k \in ds : i <= k
        ends == {j \in a..Len(s) : \A k \in a..j : k \in ds}
    IN  IF ds = {} THEN <<>>
        ELSE SubSeq(s, a, CHOOSE j \in ends : \A k \in ends : k <= j)

\* C23: in the notes container every p or li whose id holds a digit run
\* gives a definition under the first digit run of that id, whatever else
\* the id holds; the body of an element of text and back-reference anchors
\* (href to a reference anchor, or text "^") is its text without them.
C23_DefinitionPerNumberedId ==
    (call_pc = "done" /\ call.op = "FootnoteConverter._extract_definitions") =>
        LET elems == find_all(call.arg, {"p", "li"})
            numbered == SelectSeq(elems, LAMBDA e : DigitRun(e.id) # <<>>)
            backref(c) == c.name = "a" /\ (\/ StartsAt(c.href, <<"#ref">>, 1)
                                          \/ get_text_strip(c) = <<"^">>)
            plain(e) == \A i \in DOMAIN e.kids : ~IsTag(e.kids[i]) \/ backref(e.kids[i])
            own(e) == Strip(Concat([i \in DOMAIN e.kids |->
                          IF IsTag(e.kids[i]) THEN <<>> ELSE e.kids[i].text]))
            alone(i) == \A k \in DOMAIN numbered :
                            DigitRun(numbered[k].id) = DigitRun(numbered[i].id) => k = i
        IN  /\ call_ret # AttributeError
            /\ \A i \in DOMAIN numbered :
                   \E k \in DOMAIN call_ret :
                       /\ call_ret[k].num = DigitRun(numbered[i].id)
                       /\ alone(i) /\ plain(numbered[i]) =>
                              call_ret[k].content = own(numbered[i])
            /\ \A k \in DOMAIN call_ret :
                   \E i \in DOMAIN numbered : call_ret[k].num = DigitRun(numbered[i].id)

\* the first h2 or h3 of the page, in document order, whose text is
\* "bibliography" or "references" once lowered and without its numbering,
\* as a sequence of at most one place
BibHeading(soup) ==
    LET places == Locate(soup, {"h2", "h3"})
        hit == {i \in DOMAIN places :
                   NormalizedHeading(places[i].parent.kids[places[i].at])
                       \in {<<"bibliography">>, <<"references">>}}
    IN  IF hit = {} THEN <<>>
        ELSE <<places[CHOOSE i \in hit : \A k \in hit : i <= k]>>

\* the index of the first h2 or h3 after position at, past the end when none
NextHeading(kids, at) ==
    LET later == {j \in (at + 1)..Len(kids) : kids[j].name \in {"h2", "h3"}}
    IN  IF later = {} THEN Len(kids) + 1
        ELSE CHOOSE j \in later : \A k \in later : j <= k

\* C24: get_bibliography takes the first h2/h3 whose normalized text is
\* "bibliography" or "references".  When its parent is a div other than the
\* main-content container the result is the conversion of the whole parent;
\* otherwise it is the conversion of the heading and of its following
\* siblings before the next h2 or h3, and holds no text of what comes from
\* that next heading on.  Without such a heading the result is empty.
C24_BibliographySection ==
    (call_pc = "done" /\ call.op = "SEPParser.get_bibliography") =>
        LET found == BibHeading(call.arg)
            parent == found[1].parent
            kids == parent.kids
            at == found[1].at
            stop == NextHeading(kids, at)
            elements(from, to) ==
                SelectSeq([j \in 1..(to - from + 1) |-> kids[from + j - 1]], IsTag)
        IN  IF found = <<>> THEN call_ret = <<>>
            ELSE IF parent.name = "div"
                    /\ parent.id \notin {<<"main-text">>, <<"aueditable">>}
            THEN call_ret = bib_convert(parent)
            ELSE /\ call_ret = bib_convert(El("div", elements(at, stop - 1)))
                 /\ \A j \in stop..Len(kids) :
                        kids[j].name \notin HeadingNames =>
                            \A t \in DOMAIN get_text_strip(kids[j]) :
                                ~Contains(call_ret, <<get_text_strip(kids[j])[t]>>)

\* a numbered bibliography heading in the main-content container, with an
\* entry after it and a level-3 heading with its own list next
C24_Witness ==
    /\ call_pc = "done"
    /\ call.op = "SEPParser.get_bibliography"
    /\ BibHeading(call.arg) # <<>>
    /\ BibHeading(call.arg)[1].parent.id = <<"main-text">>
    /\ call_ret = <<"##", " ", "7", ".", " ", "Bibliography", NL, NL, "-", " ", "E">>
    /\ Len(find_all(call.arg, {"h3"})) = 1

RECURSIVE Flattened(_, _)
\* the lines of a list at depth d: for every item its own text after
\* 2*d spaces and "- ", then the lines of each list nested in it at d + 1
Flattened(ul, d) ==
    LET items == SelectSeq(ul.kids, LAMBDA k : k.name = "li")
        own(item) == Concat([i \in DOMAIN item.kids |->
                         IF IsTag(item.kids[i]) THEN <<>> ELSE item.kids[i].text])
        nested(item) == SelectSeq(item.kids, LAMBDA k : k.name = "ul")
        rendered(item) ==
            <<[k \in 1..(2 * d) |-> " "] \o <<"-", " ">> \o own(item)>>
            \o Concat([i \in DOMAIN nested(item) |-> Flattened(nested(item)[i], d + 1)])
    IN  Concat([i \in DOMAIN items |-> rendered(items[i])])

\* C25: the list flattener gives, for every item at depth d, a bullet with
\* the item's own text and none of the text of the lists nested in it, and
\* after it every nested list of the item, in document order, with its
\* entries after 2*(d+1) spaces.
C25_NestedListsFlattened ==
    (call_pc = "done" /\ call.op = "BibliographyConverter._convert_list") =>
        call_ret = Join(Flattened(call.arg, 0), <<NL>>)

\* C30: the rows that TableConverter.convert converts, the header first and
\* the body rows after it, hold every row of the table at most once, wherever
\* the header row is (in a thead, as the first row with a th inside or outside
\* a tbody, or as the promoted first data row): the row used as the header is
\* not among the body rows.
C30_RowsAtMostOnce ==
    (call_pc = "done" /\ call.op = "TableConverter.convert") =>
        LET emitted == table_rows(call.arg).head \o table_rows(call.arg).body_rows
        IN  \A i, j \in DOMAIN emitted : emitted[i] = emitted[j] => i = j

\* C18: convert_reference returns [^N] with N the first digit run of the
\* href of the element's anchor or, when the href has none, of the anchor's
\* text; with neither, or without anchor, it returns the element's text and
\* no reference.
C18_ReferenceNumber ==
    (call_pc = "done" /\ call.op = "FootnoteConverter.convert_reference") =>
        LET e == call.arg
            a == Anchors(e)[1]
            n == IF Anchors(e) = <<>> THEN <<>>
                 ELSE IF DigitRun(a.href) # <<>> THEN DigitRun(a.href)
                 ELSE DigitRun(get_text(a))
        IN  IF n # <<>> THEN call_ret = <<"[^">> \o n \o <<"]">>
            ELSE /\ call_ret = get_text_strip(e)
                 /\ \A i \in DOMAIN call_ret : call_ret[i] # "[^"

\* the href has no digit and the text has: the number is the text's
C18_Witness ==
    /\ call_pc = "done"
    /\ call.op = "FootnoteConverter.convert_reference"
    /\ call.arg = El("sup", <<Anchor(<<"#n">>, <<Txt(<<" ", "[", "4", "5", "]">>)>>)>>)
    /\ call_ret = <<"[^", "4", "5", "]">>

-----------------------------------------------------------------------------
(* the operations of one SEPParser on its trees *)

RECURSIVE replace(_, _, _)
\* the tree with the subtree old replaced by new (the trees of the model hold
\* no subtree twice)
replace(e, old, new) ==
    IF e = old THEN new
    ELSE [e EXCEPT !.kids = [i \in DOMAIN e.kids |-> replace(e.kids[i], old, new)]]

\* bibliography.py 71-75 as run by BibliographyConverter.convert on a section
\* of the tree: the first ul child of every li of every ul child of the
\* section is taken out of the tree by extract() and never put back
after_convert(section) ==
    LET without(li) ==
            LET uls == {j \in DOMAIN li.kids : li.kids[j].name = "ul"}
                at == CHOOSE j \in uls : \A k \in uls : j <= k
            IN  IF li.name # "li" \/ uls = {} THEN li
                ELSE [li EXCEPT !.kids = SubSeq(li.kids, 1, at - 1)
                                             \o SubSeq(li.kids, at + 1, Len(li.kids))]
    IN  [section EXCEPT !.kids = [i \in DOMAIN section.kids |->
            IF section.kids[i].name = "ul"
            THEN [section.kids[i] EXCEPT !.kids =
                     [j \in DOMAIN section.kids[i].kids |-> without(section.kids[i].kids[j])]]
            ELSE section.kids[i]]]

\* the article tree after SEPParser.get_bibliography: the section of the tree
\* is converted in place when it is a dedicated div (parser.py 239-244); the
\* virtual section is a new tree parsed from a string (parser.py 247-254)
after_get_bibliography(soup) ==
    LET hits == SelectSeq(Locate(soup, {"h2", "h3"}), LAMBDA l :
                    NormalizedHeading(l.parent.kids[l.at])
                        \in {<<"bibliography">>, <<"references">>})
        section == hits[1].parent
    IN  IF hits # <<>> /\ section.name = "div"
           /\ section.id \notin {<<"main-text">>, <<"aueditable">>}
        THEN replace(soup, section, after_convert(section))
        ELSE soup

\* the appendix tree after SEPParser.parse_appendix (parser.py 299-308)
after_parse_appendix(appendix_soup) ==
    LET divs == SelectSeq(find_all(appendix_soup, {"div"}), LAMBDA dv :
                    dv.id \in {<<"main-text">>, <<"aueditable">>})
    IN  IF divs = <<>> THEN appendix_soup
        ELSE replace(appendix_soup, divs[1], demote(decompose_first(divs[1], "h2")))

MaxCalls == 3

TrInit(run) ==
    LET nested == El("ul", << El("li", <<Txt(<<"F">>),
                                         El("ul", <<El("li", <<Txt(<<"G">>),
                                                    El("ul", <<Leaf("li", <<"H">>)>>)>>)>>)>>),
                              Leaf("li", <<"E">>) >>)
        heads == { <<>>,
                   << Leaf("h1", <<"Test">>),
                      WithId(El("div", <<Leaf("p", <<"P">>)>>), <<"preamble">>) >> }
        mains == { <<>>,
                   << WithId(El("div", << Leaf("h2", <<"Intro">>), Leaf("p", <<"A">>),
                                          Leaf("h2", <<"Appendices">>),
                                          El("ul", <<El("li", <<Anchor(<<"s.html">>,
                                                                 <<Txt(<<"S">>)>>)>>)>>) >>),
                             <<"main-text">>) >>,
                   << WithId(El("div", << Leaf("h2", <<"Intro">>), Leaf("p", <<"A">>),
                                          Leaf("h2", <<"Bibliography">>), nested >>),
                             <<"main-text">>) >> }
        bibs == { <<>>,
                  << WithId(El("div", << Leaf("h2", <<"Bibliography">>),
                                         El("ul", <<Leaf("li", <<"B">>)>>) >>),
                            <<"bibliography">>) >>,
                  << WithId(El("div", <<Leaf("h2", <<"Bibliography">>), nested>>),
                            <<"bibliography">>) >> }
        appendices == { El("[document]", <<>>),
                        El("[document]",
                           << WithId(El("div", << Leaf("h2", <<"T">>), Leaf("h2", <<"U">>),
                                                  Leaf("p", <<"q">>) >>),
                                     <<"main-text">>) >>) }
    IN  /\ tr_orig \in (IF run
                        THEN [soup : {El("[document]", h \o m \o b) :
                                         h \in heads, m \in mains, b \in bibs},
                              appendix : appendices]
                        ELSE {[soup |-> <<>>, appendix |-> <<>>]})
        /\ tr_soup = tr_orig.soup
        /\ tr_appendix = tr_orig.appendix
        /\ tr_ops = <<>>
        /\ tr_bib = <<>>

\* one call of an operation of the parser (parser.py 59-322) and what it
\* does to the two trees.  get_metadata, get_preamble, get_main_content,
\* get_footnotes and get_appendix_links hold no statement that changes a tree.
TrCall ==
    /\ Len(tr_ops) < MaxCalls
    /\ \E op \in {"get_metadata", "get_preamble", "get_main_content", "get_footnotes",
                  "get_bibliography", "get_appendix_links", "parse_appendix"} :
           /\ tr_ops' = Append(tr_ops, op)
           /\ tr_bib' = IF op = "get_bibliography" THEN get_bibliography(tr_soup)
                        ELSE tr_bib
           /\ tr_soup' = IF op = "get_bibliography" THEN after_get_bibliography(tr_soup)
                         ELSE tr_soup
           /\ tr_appendix' = IF op = "parse_appendix" THEN after_parse_appendix(tr_appendix)
                             ELSE tr_appendix
    /\ UNCHANGED tr_orig
    /\ UNCHANGED <<mcVars, mxVars, scVars, fnVars, asVars, e2Vars, callVars, saVars, baVars>>

\* C19: the article tree is left unchanged by every extraction operation,
\* in any order and number of calls; only parse_appendix changes a tree, and
\* only the appendix tree it is given.
C19_TreeUnchanged ==
    /\ tr_soup = tr_orig.soup
    /\ tr_appendix # tr_orig.appendix =>
           \E i \in DOMAIN tr_ops : tr_ops[i] = "parse_appendix"

-----------------------------------------------------------------------------
(* scripts/scrape_all.py *)

CONCURRENCY == 20

MaxUrls == 21

MaxExisting == 1

\* asyncio.Semaphore: acquire returns without waiting when a permit is free
can_acquireMutUnbounded(value) == TRUE

can_acquire(value) == value > 0

\* asyncio.Semaphore.release, called when the "async with" block is left,
\* by a return or by an exception alike
releaseMutKeepPermit(value) == value

release(value) == value + 1

\* runs: the numbers of urls and of output files that exist at the start
BaInit(runs) ==
    /\ \E r \in runs :
           /\ ba_urls = r.urls
           /\ ba_new = [exists |-> r.exists, missing |-> r.urls - r.exists]
    /\ ba_waiting = 0
    /\ ba_active = 0
    /\ ba_value = CONCURRENCY
    /\ ba_files = [written |-> 0, partial |-> FALSE]
    /\ ba_ready = [done |-> 0, exists |-> 0, failed |-> 0]
    /\ ba_count = [success |-> 0, skip |-> 0, fail |-> 0]

\* scrape_all.py 54-66: a task runs from its start to its first wait: it
\* returns "exists", or enters the semaphore and calls scrape_article, or
\* waits for a permit
EntryStart ==
    /\ \/ /\ ba_new.exists > 0
          /\ ba_new' = [ba_new EXCEPT !.exists = @ - 1]
          /\ ba_ready' = [ba_ready EXCEPT !.exists = @ + 1]
          /\ UNCHANGED <<ba_waiting, ba_active, ba_value>>
       \/ /\ ba_new.missing > 0
          /\ can_acquire(ba_value)
          /\ ba_new' = [ba_new EXCEPT !.missing = @ - 1]
          /\ ba_value' = ba_value - 1
          /\ ba_active' = ba_active + 1
          /\ UNCHANGED <<ba_waiting, ba_ready>>
       \/ /\ ba_new.missing > 0
          /\ ~can_acquire(ba_value)
          /\ ba_new' = [ba_new EXCEPT !.missing = @ - 1]
          /\ ba_waiting' = ba_waiting + 1
          /\ UNCHANGED <<ba_active, ba_value, ba_ready>>
    /\ UNCHANGED <<ba_urls, ba_files, ba_count>>
    /\ UNCHANGED <<mcVars, mxVars, scVars, fnVars, asVars, e2Vars, callVars, saVars, trVars>>

\* scrape_all.py 64-66: a waiting task gets a permit and calls scrape_article
EntryWake ==
    /\ ba_waiting > 0
    /\ can_acquire(ba_value)
    /\ ba_waiting' = ba_waiting - 1
    /\ ba_value' = ba_value - 1
    /\ ba_active' = ba_active + 1
    /\ UNCHANGED <<ba_urls, ba_new, ba_files, ba_ready, ba_count>>
    /\ UNCHANGED <<mcVars, mxVars, scVars, fnVars, asVars, e2Vars, callVars, saVars, trVars>>

\* scrape_all.py 67-74: scrape_article returns and the file is written, or
\* scrape_article raises a ScraperError or another Exception, or write_text
\* raises (an OSError), before the file is created or after; either way the
\* task leaves the semaphore and returns its result
EntryReturn ==
    /\ ba_active > 0
    /\ ba_active' = ba_active - 1
    /\ ba_value' = release(ba_value)
    /\ \/ /\ ba_files' = [ba_files EXCEPT !.written = @ + 1]
          /\ ba_ready' = [ba_ready EXCEPT !.done = @ + 1]
       \/ /\ ba_files' = ba_files
          /\ ba_ready' = [ba_ready EXCEPT !.failed = @ + 1]
       \/ /\ ba_files' = [ba_files EXCEPT !.partial = TRUE]
          /\ ba_ready' = [ba_ready EXCEPT !.failed = @ + 1]
    /\ UNCHANGED <<ba_urls, ba_new, ba_waiting, ba_count>>
    /\ UNCHANGED <<mcVars, mxVars, scVars, fnVars, asVars, e2Vars, callVars, saVars, trVars>>

\* scrape_all.py 96-109: main takes the next completed result and counts it
MainCollect ==
    /\ \/ /\ ba_ready.done > 0
          /\ ba_ready' = [ba_ready EXCEPT !.done = @ - 1]
          /\ ba_count' = [ba_count EXCEPT !.success = @ + 1]
       \/ /\ ba_ready.exists > 0
          /\ ba_ready' = [ba_ready EXCEPT !.exists = @ - 1]
          /\ ba_count' = [ba_count EXCEPT !.skip = @ + 1]
       \/ /\ ba_ready.failed > 0
          /\ ba_ready' = [ba_ready EXCEPT !.failed = @ - 1]
          /\ ba_count' = [ba_count EXCEPT !.fail = @ + 1]
    /\ UNCHANGED <<ba_urls, ba_new, ba_waiting, ba_active, ba_value, ba_files>>
    /\ UNCHANGED <<mcVars, mxVars, scVars, fnVars, asVars, e2Vars, callVars, saVars, trVars>>

BaNext == EntryStart \/ EntryWake \/ EntryReturn \/ MainCollect

\* C20: at every moment at most CONCURRENCY (20) calls of scrape_article are
\* in progress, whatever the number of urls and the interleaving of the tasks.
C20_BoundedConcurrency ==
    /\ ba_active <= 20
    /\ ba_active + ba_value = 20

\* all permits are taken and a task waits for one
C20_Witness ==
    /\ ba_active = 20
    /\ ba_waiting > 0
    /\ ba_urls > 20

\* C21: a failure of one entry becomes the failed result of that entry and
\* gives its permit back; the other entries go on, and in the end every url
\* has been counted once: scraped + skipped + failed is the number of urls,
\* no task is left new, waiting, running or uncollected, and every permit
\* is free.
C21_AllCounted ==
    <>[](/\ ba_count.success + ba_count.skip + ba_count.fail = ba_urls
         /\ ba_new.exists + ba_new.missing + ba_waiting + ba_active = 0
         /\ ba_ready.done + ba_ready.exists + ba_ready.failed = 0
         /\ ba_value = CONCURRENCY)

\* a run with more urls than permits in which entries have failed and every
\* url has been counted
C21_Witness ==
    /\ ba_urls > CONCURRENCY
    /\ ba_count.fail > 0
    /\ ba_count.success > 0
    /\ ba_count.success + ba_count.skip + ba_count.fail = ba_urls

\* C29: a step that reports an entry as "exists" takes no permit, starts no
\* call of scrape_article and leaves the files as they are; and the files
\* change only in a step in which a call of scrape_article that succeeded
\* returns "done", so that an entry reported as failed leaves no file.
C29_FilesOnlyOnSuccess ==
    [][/\ ba_ready'.exists > ba_ready.exists =>
              /\ ba_value' = ba_value
              /\ ba_active' = ba_active
              /\ ba_files' = ba_files
       /\ ba_files' # ba_files =>
              /\ ba_active' = ba_active - 1
              /\ ba_ready'.done = ba_ready.done + 1
              /\ ba_ready'.failed = ba_ready.failed
              /\ ba_files' = [ba_files EXCEPT !.written = @ + 1]]_vars

-----------------------------------------------------------------------------
(* Specifications: one per operation, the others idle *)

\* the initial states in which operation op is called and the others are not
InitOf(op) ==
    /\ McInit(CASE op = "get_main_content" -> McInputs
                 [] op = "scrape_article" -> E2Mains
                 [] OTHER -> {},
               IF op = "get_main_content" THEN "start" ELSE "idle")
    /\ MxInit(op = "_expand_macros")
    /\ ScInit(op = "_expand_macro_with_args")
    /\ FnInit(op = "format_definitions")
    /\ AsInit(op = "assemble_markdown")
    /\ E2Init(op = "scrape_article")
    /\ CallInit(op = "call")
    /\ SaInit(op = "main")
    /\ TrInit(op = "SEPParser")
    /\ BaInit(CASE op = "scrape_all" ->
                      {r \in [urls : 0..MaxUrls, exists : 0..MaxExisting] :
                           /\ r.exists <= r.urls
                           /\ r.urls <= MaxExisting + 1 \/ r.urls = MaxUrls}
                 [] op = "scrape_all to its end" ->
                      {[urls |-> CONCURRENCY + 1, exists |-> 0]}
                      \cup {[urls |-> e + 1, exists |-> e] : e \in 1..MaxExisting}
                 [] OTHER -> {[urls |-> 0, exists |-> 0]})

SpecMain == InitOf("get_main_content") /\ [][McNext]_vars

SpecMacro == InitOf("_expand_macros") /\ [][MxNext]_vars

SpecScan == InitOf("_expand_macro_with_args") /\ [][ScNext]_vars

SpecFoot == InitOf("format_definitions") /\ [][FnNext]_vars

SpecAsm == InitOf("assemble_markdown") /\ [][AsNext]_vars

SpecE2E == InitOf("scrape_article") /\ [][E2Next]_vars

SpecCall == InitOf("call") /\ [][Call]_vars

SpecCli == InitOf("main") /\ [][SaNext]_vars

SpecParser == InitOf("SEPParser") /\ [][TrCall]_vars

SpecBatch == InitOf("scrape_all") /\ [][BaNext]_vars

\* The runs: one more entry than permits, and entries beside existing
\* files.  The event loop runs every task that can run, main awaits every completed result, and
\* a call of scrape_article returns or raises.
SpecBatchFair ==
    /\ InitOf("scrape_all to its end")
    /\ [][BaNext]_vars
    /\ WF_vars(EntryStart)
    /\ WF_vars(EntryWake)
    /\ WF_vars(EntryReturn)
    /\ WF_vars(MainCollect)

====
